---- MODULE Spec2Model ----
(***************************************************************************)
(* A model of the spriteops compiler of spriteforge: the op table          *)
(* (engine/ops.py), the validator (engine/validate.py), the frame          *)
(* inheritance resolver and the op interpreter (engine/render.py), the     *)
(* layer helpers (engine/layers.py) and the raster primitives              *)
(* (engine/raster.py).                                                     *)
(*                                                                         *)
(* JSON values are tagged records, so that the type tests of the code      *)
(* (isinstance, `in`, len, int(), str()) are modelled by what they do on   *)
(* each type.  A pixel buffer is a sequence of w*h palette indices; the    *)
(* Python index i of a buffer is position i+1 of the sequence.             *)
(***************************************************************************)
EXTENDS Integers, Sequences, FiniteSets, TLC

VARIABLES
  rf_w, rf_h,    \* render_frame: the canvas size w, h it was called with
  rf_ops,        \* render_frame: the list ops it was called with
                 \* (in Spec and SpecLayers: as far as the loop has read it)
  rf_pc,         \* render_frame: how many ops the loop has run
  rf_op,         \* render_frame: the loop variable op, the op run last
  rf_layers,     \* render_frame: layers, the mapping from name to buffer
  rf_order,      \* render_frame: layer_order, the insertion order
  rf_current,    \* render_frame: current, the current layer name
  rf_status,     \* "ok", or the error that ended the call
  result,        \* the buffer the last finished call returned
  memo,          \* an earlier finished call: its ops and what it returned
  calls,         \* how many render_frame calls were made
  phase,         \* where the program is
  doc,           \* the document loaded
  strict_flag,   \* the argument strict of validate_sprite
  errors,        \* what validate_sprite returned
  processed,     \* what process_frame_inheritance returned
  rendered,      \* render_sprite: the outcome of each frame rendered so far
  canvas_width,  \* PixelCanvas: the size of the editor canvas
  canvas_height,
  buffer,        \* PixelCanvas: the buffer the editor holds
  cursor_x,      \* PixelCanvas: the cursor
  cursor_y,
  frame_ops      \* the editor: the ops of the frame saved last

vars == <<rf_w, rf_h, rf_ops, rf_pc, rf_op, rf_layers, rf_order, rf_current, rf_status,
          result, memo, calls, phase, doc, strict_flag, errors, processed, rendered,
          canvas_width, canvas_height, buffer, cursor_x, cursor_y, frame_ops>>
docVars == <<doc, strict_flag, errors, processed, rendered>>
edVars == <<canvas_width, canvas_height, buffer, cursor_x, cursor_y, frame_ops>>

(***************************************************************************)
(* JSON scalars and lists                                                  *)
(***************************************************************************)
\* A JSON value: t is its type ("int", "str", "list", "dict", "null"),
\* i its number, s its string, l its items (scalars) when it is a list.
J(t, i, s, l) == [t |-> t, i |-> i, s |-> s, l |-> l]
\* A JSON scalar inside an op: an integer or a string.
I(n) == [t |-> "int", i |-> n, s |-> ""]
S(x) == [t |-> "str", i |-> 0, s |-> x]
\* An op as the document holds it: a JSON list of scalars.
Op(items) == J("list", 0, "", items)
\* A document entry that should be an op and is a number.
NotAList == J("int", 5, "", <<>>)

\* Python's len(op) and op[k] (k counted from 0) on an op that is a list.
oplen(op) == Len(op.l)
arg(op, k) == op.l[k + 1]

\* str(n) for the integers the model puts where the code calls str().
IntStr == [n \in -1..3 |-> CASE n = -1 -> "-1" [] n = 0 -> "0" [] n = 1 -> "1"
                              [] n = 2 -> "2" [] OTHER -> "3"]
\* The strings int() accepts, with their values; int() of any other string
\* raises ValueError.
NumStr == ("0" :> 0) @@ ("1" :> 1) @@ ("2" :> 2) @@ ("3" :> 3) @@ ("-1" :> -1)

\* Python's str(v) of a scalar.
py_str(v) == IF v.t = "str" THEN v.s ELSE IntStr[v.i]
\* Whether Python's int(v) returns, and what.
int_ok(v) == v.t = "int" \/ (v.t = "str" /\ v.s \in DOMAIN NumStr)
py_int(v) == IF v.t = "int" THEN v.i ELSE NumStr[v.s]
\* Python's str.lower() on the side names the model uses.
py_lower(s) == CASE s = "RIGHT" -> "right" [] s = "Edge" -> "edge" [] OTHER -> s

(***************************************************************************)
(* Buffers                                                                 *)
(***************************************************************************)
\* [0] * n
Zeros(n) == [k \in 1..n |-> 0]
\* [c] * n
Filled(c, n) == [k \in 1..n |-> c]
\* What a primitive returns in place of a buffer when it raised: IndexError
\* from a list assignment outside the list, ValueError from shade_band.
Raised == <<-1>>

\* Python's buf[idx] = c for every idx of the set idxs: an index in [0, n)
\* is that position, an index in [-n, 0) counts from the end, any other
\* index raises IndexError.
setitems(buf, idxs, c) ==
  LET n == Len(buf)
  IN IF \E k \in idxs : k >= n \/ k < -n
       THEN Raised
       ELSE [p \in 1..n |-> IF (p - 1) \in idxs \/ (p - 1 - n) \in idxs
                              THEN c ELSE buf[p]]

(***************************************************************************)
(* engine/raster.py                                                        *)
(***************************************************************************)
\* in_bounds with the right edge off by one: x = w passes.
in_bounds_off_by_one(x, y, w, h) == 0 <= x /\ x <= w /\ 0 <= y /\ y < h
in_bounds(x, y, w, h) == 0 <= x /\ x < w /\ 0 <= y /\ y < h

\* The statement pair `if in_bounds(x, y, w, h): buf[y * w + x] = color`,
\* for every point of pts.
plot_all(buf, w, h, color, pts) ==
  setitems(buf, {p[2] * w + p[1] : p \in {q \in pts : in_bounds(q[1], q[2], w, h)}}, color)

Abs(a) == IF a < 0 THEN -a ELSE a
Max(a, b) == IF a >= b THEN a ELSE b
Min(a, b) == IF a <= b THEN a ELSE b

\* The points the Bresenham loop of draw_line visits from (x, y) to (x1, y1).
RECURSIVE line_points(_, _, _, _, _, _, _, _, _)
line_points(x, y, x1, y1, dx, dy, sx, sy, err) ==
  IF x = x1 /\ y = y1
    THEN {<<x, y>>}
    ELSE LET e2 == 2 * err
             stepx == e2 >= dy
             stepy == e2 <= dx
             err1 == IF stepx THEN err + dy ELSE err
             err2 == IF stepy THEN err1 + dx ELSE err1
         IN {<<x, y>>} \cup
            line_points(IF stepx THEN x + sx ELSE x, IF stepy THEN y + sy ELSE y,
                        x1, y1, dx, dy, sx, sy, err2)

draw_line(buf, w, h, color, x0, y0, x1, y1) ==
  LET dx == Abs(x1 - x0)
      dy == -Abs(y1 - y0)
      sx == IF x0 < x1 THEN 1 ELSE -1
      sy == IF y0 < y1 THEN 1 ELSE -1
  IN plot_all(buf, w, h, color, line_points(x0, y0, x1, y1, dx, dy, sx, sy, dx + dy))

rect_stroke(buf, w, h, color, x, y, rw, rh) ==
  plot_all(buf, w, h, color,
           {<<x + i, y>> : i \in 0..(rw - 1)} \cup
           {<<x + i, y + rh - 1>> : i \in 0..(rw - 1)} \cup
           {<<x, y + j>> : j \in 0..(rh - 1)} \cup
           {<<x + rw - 1, y + j>> : j \in 0..(rh - 1)})

\* rect_fill clips with its own comparisons, not with in_bounds.
rect_fill(buf, w, h, color, x, y, rw, rh) ==
  setitems(buf, {yy * w + xx : yy \in {v \in y..(y + rh - 1) : 0 <= v /\ v < h},
                               xx \in {u \in x..(x + rw - 1) : 0 <= u /\ u < w}},
           color)

dither_rect(buf, w, h, color, x, y, rw, rh, pattern) ==
  LET cells == {<<xx, yy>> \in (x..(x + rw - 1)) \X (y..(y + rh - 1)) :
                  0 <= yy /\ yy < h /\ 0 <= xx /\ xx < w}
      hit(xx, yy) == \/ pattern = "checker" /\ (xx + yy) % 2 = 0
                     \/ pattern = "dots" /\ xx % 2 = 0 /\ yy % 2 = 0
  IN setitems(buf, {c[2] * w + c[1] : c \in {d \in cells : hit(d[1], d[2])}}, color)

\* for i in range(w * h): skip where the mask is 0; replace old_c by new_c.
\* has_mask is the truth of `mask_layer` in the code: a layer was found and
\* its list is not empty.
color_replace(buf, w, h, old_c, new_c, has_mask, mask) ==
  [p \in 1..Len(buf) |->
     IF p <= w * h /\ ~(has_mask /\ mask[p] = 0) /\ buf[p] = old_c THEN new_c ELSE buf[p]]

mask_layer_fn(buf, mask) ==
  [p \in 1..Len(buf) |-> IF mask[p] = 0 THEN 0 ELSE buf[p]]

\* The pixels one dilation pass adds: zero in work and 4-adjacent, inside the
\* canvas, to a non-zero pixel of work.
dilate_add(work, w, h) ==
  {idx \in 0..(w * h - 1) :
     /\ work[idx + 1] = 0
     /\ \E d \in {<<1, 0>>, <<-1, 0>>, <<0, 1>>, <<0, -1>>} :
          LET nx == (idx % w) + d[1]
              ny == (idx \div w) + d[2]
          IN 0 <= nx /\ nx < w /\ 0 <= ny /\ ny < h /\ work[ny * w + nx + 1] # 0}

\* The passes of outline_layer and outline_from_mask: `passes` times, colour
\* the added pixels in dest and mark them in work.
RECURSIVE dilate_passes(_, _, _, _, _, _)
dilate_passes(dest, work, w, h, color, passes) ==
  IF passes <= 0
    THEN dest
    ELSE LET add == dilate_add(work, w, h)
         IN dilate_passes(setitems(dest, add, color), setitems(work, add, 1),
                          w, h, color, passes - 1)

outline_layer(buf, w, h, thickness, color) ==
  dilate_passes(buf, [p \in 1..Len(buf) |-> IF buf[p] # 0 THEN 1 ELSE 0],
                w, h, color, thickness)

\* The queue loop of flood_fill.
RECURSIVE flood_loop(_, _, _, _, _, _)
flood_loop(buf, w, h, color, target, q) ==
  IF q = <<>>
    THEN buf
    ELSE LET x == Head(q)[1]
             y == Head(q)[2]
             idx == y * w + x
         IN IF ~in_bounds(x, y, w, h)
              THEN flood_loop(buf, w, h, color, target, Tail(q))
              ELSE IF idx < 0 \/ idx >= Len(buf)
                THEN Raised
              ELSE IF buf[idx + 1] # target
                THEN flood_loop(buf, w, h, color, target, Tail(q))
                ELSE flood_loop([buf EXCEPT ![idx + 1] = color], w, h, color, target,
                                Tail(q) \o <<(<<x + 1, y>>), (<<x - 1, y>>),
                                             (<<x, y + 1>>), (<<x, y - 1>>)>>)

\* A fill that recolours every pixel equal to the seed's value, connected to
\* the seed or not.
flood_fill_everywhere(buf, w, h, color, sx, sy) ==
  IF ~in_bounds(sx, sy, w, h)
    THEN buf
    ELSE [p \in 1..Len(buf) |-> IF buf[p] = buf[sy * w + sx + 1] THEN color ELSE buf[p]]

flood_fill(buf, w, h, color, sx, sy) ==
  IF ~in_bounds(sx, sy, w, h)
    THEN buf
    ELSE IF sy * w + sx >= Len(buf)
      THEN Raised
    ELSE IF buf[sy * w + sx + 1] = color
      THEN buf
      ELSE flood_loop(buf, w, h, color, buf[sy * w + sx + 1], <<(<<sx, sy>>)>>)

\* gradient_linear with the index floor(t * N) capped at N - 1: the indices
\* share the span evenly.
gradient_linear_even(buf, w, h, palette_indices, x0, y0, x1, y1) ==
  LET dx == x1 - x0
      dy == y1 - y0
      len_sq == dx * dx + dy * dy
      n == Len(palette_indices)
  IN IF n = 0 \/ len_sq = 0
       THEN buf
       ELSE [p \in 1..Len(buf) |->
               LET num == (((p - 1) % w) - x0) * dx + (((p - 1) \div w) - y0) * dy
                   c == Max(0, Min(len_sq, num))
               IN palette_indices[Min(n - 1, (c * n) \div len_sq) + 1]]

\* gradient_linear: t = ((x - x0) * dx + (y - y0) * dy) / len_sq clamped to
\* [0, 1] and idx = int(t * (N - 1)).  With c the numerator clamped to
\* 0..len_sq, int((c / len_sq) * (N - 1)) is the integer quotient of
\* c * (N - 1) by len_sq for every len_sq below 400 and N up to 6, where the
\* floating-point product does not fall below an exact integer.
gradient_linear(buf, w, h, palette_indices, x0, y0, x1, y1) ==
  LET dx == x1 - x0
      dy == y1 - y0
      len_sq == dx * dx + dy * dy
      n == Len(palette_indices)
  IN IF n = 0 \/ len_sq = 0
       THEN buf
       ELSE [p \in 1..Len(buf) |->
               LET num == (((p - 1) % w) - x0) * dx + (((p - 1) \div w) - y0) * dy
                   c == Max(0, Min(len_sq, num))
               IN palette_indices[((c * (n - 1)) \div len_sq) + 1]]

\* int(math.floor(math.sqrt(num / den))) for num >= 0 and den > 0, counted
\* up from s: the largest s with s * s * den <= num.
RECURSIVE floor_sqrt_from(_, _, _)
floor_sqrt_from(num, den, s) ==
  IF (s + 1) * (s + 1) * den <= num THEN floor_sqrt_from(num, den, s + 1) ELSE s
floor_sqrt(num, den) == floor_sqrt_from(num, den, 0)

\* int(round(num / den)) for den > 0: Python's round() takes a tie to the
\* even neighbour.
py_round(num, den) ==
  LET q == num \div den
      r == num % den
  IN IF 2 * r < den THEN q
     ELSE IF 2 * r > den THEN q + 1
     ELSE IF q % 2 = 0 THEN q ELSE q + 1

\* The coordinates the rows of ellipse_fill cover, before clipping.  The
\* span int(math.floor(rx * math.sqrt(1.0 - dy * dy))) with dy = (yy - cy) / ry
\* is the integer square root below for radii up to 4 (for rx = ry = 5 and
\* yy - cy = 4 the floating-point product falls just under 3).
ellipse_points(cx, cy, rx, ry) ==
  IF rx <= 0 \/ ry <= 0
    THEN IF rx = 0 /\ ry = 0 THEN {<<cx, cy>>} ELSE {}
    ELSE UNION {LET span == floor_sqrt(rx * rx * (ry * ry - (yy - cy) * (yy - cy)), ry * ry)
                IN {<<xx, yy>> : xx \in (cx - span)..(cx + span)} :
                yy \in (cy - ry)..(cy + ry)}

\* buf[row + xx] = color under `0 <= yy < h` and `0 <= xx < w`.
clip_all(buf, w, h, color, pts) ==
  setitems(buf, {p[2] * w + p[1] : p \in {q \in pts : 0 <= q[1] /\ q[1] < w
                                                      /\ 0 <= q[2] /\ q[2] < h}}, color)

ellipse_fill(buf, w, h, color, cx, cy, rx, ry) ==
  IF rx = 0 /\ ry = 0
    THEN plot_all(buf, w, h, color, {<<cx, cy>>})
    ELSE clip_all(buf, w, h, color, ellipse_points(cx, cy, rx, ry))

\* The centres draw_thick_line puts its discs at: steps = int(dist * 2)
\* and, for i in 0..steps, the rounded point at t = i / steps.
thick_centres(x0, y0, x1, y1) ==
  LET dx == x1 - x0
      dy == y1 - y0
      steps == floor_sqrt(4 * (dx * dx + dy * dy), 1)
  IN IF dx = 0 /\ dy = 0
       THEN {<<x0, y0>>}
       ELSE {<<py_round(x0 * steps + i * dx, steps), py_round(y0 * steps + i * dy, steps)>> :
               i \in 0..steps}

draw_thick_line(buf, w, h, color, x0, y0, x1, y1, thickness) ==
  IF thickness <= 1
    THEN draw_line(buf, w, h, color, x0, y0, x1, y1)
    ELSE clip_all(buf, w, h, color,
                  UNION {ellipse_points(c[1], c[2], thickness \div 2, thickness \div 2) :
                           c \in thick_centres(x0, y0, x1, y1)})

capsule_fill(buf, w, h, color, x0, y0, x1, y1, r) ==
  draw_thick_line(buf, w, h, color, x0, y0, x1, y1, r * 2)

\* The first loop of ellipse_stroke (`while px < py`) from its state on;
\* pts are the offsets (x, y) plotted so far.
RECURSIVE stroke_region1(_, _, _, _, _, _, _, _)
stroke_region1(x, y, px, py, p, rx2, ry2, pts) ==
  IF px < py
    THEN LET x2 == x + 1
             px2 == px + 2 * ry2
         IN IF p < 0
              THEN stroke_region1(x2, y, px2, py, p + ry2 + px2, rx2, ry2,
                                  pts \cup {<<x2, y>>})
              ELSE stroke_region1(x2, y - 1, px2, py - 2 * rx2,
                                  p + ry2 + px2 - (py - 2 * rx2), rx2, ry2,
                                  pts \cup {<<x2, y - 1>>})
    ELSE [x |-> x, y |-> y, px |-> px, py |-> py, pts |-> pts]

\* The second loop (`while y > 0`).
RECURSIVE stroke_region2(_, _, _, _, _, _, _, _)
stroke_region2(x, y, px, py, p, rx2, ry2, pts) ==
  IF y > 0
    THEN LET y2 == y - 1
             py2 == py - 2 * rx2
         IN IF p > 0
              THEN stroke_region2(x, y2, px, py2, p + rx2 - py2, rx2, ry2,
                                  pts \cup {<<x, y2>>})
              ELSE stroke_region2(x + 1, y2, px + 2 * ry2, py2,
                                  p + rx2 - py2 + px + 2 * ry2, rx2, ry2,
                                  pts \cup {<<x + 1, y2>>})
    ELSE pts

\* The offsets ellipse_stroke plots.  round(ry2 - rx2 * ry + 0.25 * rx2) and
\* round(ry2 * (x + 0.5) ** 2 + rx2 * (y - 1) ** 2 - rx2 * ry2) round a
\* number whose fraction is 0 or 0.25, so they round down.
stroke_offsets(rx, ry) ==
  LET rx2 == rx * rx
      ry2 == ry * ry
      a == stroke_region1(0, ry, 0, 2 * rx2 * ry, ry2 - rx2 * ry + (rx2 \div 4), rx2, ry2,
                          {<<0, ry>>})
  IN stroke_region2(a.x, a.y, a.px, a.py,
                    ry2 * (a.x * a.x + a.x) + (ry2 \div 4) + rx2 * (a.y - 1) * (a.y - 1)
                      - rx2 * ry2,
                    rx2, ry2, a.pts)

ellipse_stroke(buf, w, h, color, cx, cy, rx, ry) ==
  IF rx <= 0 \/ ry <= 0
    THEN buf
    ELSE plot_all(buf, w, h, color,
                  UNION {{<<cx + o[1], cy + o[2]>>, <<cx - o[1], cy + o[2]>>,
                          <<cx + o[1], cy - o[2]>>, <<cx - o[1], cy - o[2]>>} :
                           o \in stroke_offsets(rx, ry)})

\* int(t * (len(palette_indices) - 1)) with t = dist / r and dist =
\* math.sqrt(d2) is the integer square root of d2 * (n - 1)^2 / r^2.
gradient_radial(buf, w, h, palette_indices, cx, cy, r) ==
  LET n == Len(palette_indices)
  IN IF n = 0 \/ r <= 0
       THEN buf
       ELSE [p \in 1..Len(buf) |->
               LET xx == (p - 1) % w
                   yy == (p - 1) \div w
                   d2 == (xx - cx) * (xx - cx) + (yy - cy) * (yy - cy)
               IN IF in_bounds(xx, yy, w, h) /\ d2 <= r * r
                    THEN palette_indices[floor_sqrt(d2 * (n - 1) * (n - 1), r * r) + 1]
                    ELSE buf[p]]

\* The points of the quadratic curve at t = i / steps, rounded.
draw_bezier(buf, w, h, color, x0, y0, cx, cy, x1, y1) ==
  LET steps == Max(Max(Max(Abs(x0 - x1), Abs(y0 - y1)), Max(Abs(x0 - cx), Abs(y0 - cy))),
                   10) * 2
  IN plot_all(buf, w, h, color,
              {<<py_round((steps - i) * (steps - i) * x0 + 2 * (steps - i) * i * cx
                            + i * i * x1, steps * steps),
                 py_round((steps - i) * (steps - i) * y0 + 2 * (steps - i) * i * cy
                            + i * i * y1, steps * steps)>> : i \in 0..steps})

\* The crossings of scanline y with the edges of the polygon, from edge i
\* on, each the fraction <<numerator, denominator>> (denominator positive)
\* of points[i][0] + (y - points[i][1]) / (points[j][1] - points[i][1])
\* * (points[j][0] - points[i][0]), where j is the point before i.
RECURSIVE poly_nodes(_, _, _)
poly_nodes(points, y, i) ==
  IF i > Len(points)
    THEN <<>>
    ELSE LET j == IF i = 1 THEN Len(points) ELSE i - 1
             xi == points[i][1]
             yi == points[i][2]
             xj == points[j][1]
             yj == points[j][2]
             num == xi * (yj - yi) + (y - yi) * (xj - xi)
             rest == poly_nodes(points, y, i + 1)
         IN IF (yi < y /\ y <= yj) \/ (yj < y /\ y <= yi)
              THEN <<(IF yj > yi THEN <<num, yj - yi>> ELSE <<-num, yi - yj>>)>> \o rest
              ELSE rest

\* nodes.sort(): insertion of a fraction into a sorted sequence.
RECURSIVE insert_node(_, _)
insert_node(a, sorted) ==
  IF sorted = <<>> THEN <<a>>
  ELSE IF a[1] * Head(sorted)[2] <= Head(sorted)[1] * a[2] THEN <<a>> \o sorted
  ELSE <<Head(sorted)>> \o insert_node(a, Tail(sorted))

RECURSIVE sort_nodes(_)
sort_nodes(nodes) ==
  IF nodes = <<>> THEN <<>> ELSE insert_node(Head(nodes), sort_nodes(Tail(nodes)))

\* The pixels of scanline y between the crossings taken in pairs, from
\* int(math.ceil(.)) to int(math.floor(.)).
poly_row(points, y) ==
  LET nodes == sort_nodes(poly_nodes(points, y, 1))
  IN UNION {LET a == nodes[2 * k - 1]
                b == nodes[2 * k]
            IN {<<x, y>> : x \in (-((-a[1]) \div a[2]))..(b[1] \div b[2])} :
            k \in 1..(Len(nodes) \div 2)}

draw_poly(buf, w, h, color, points) ==
  IF points = <<>>
    THEN buf
    ELSE LET ys == {points[k][2] : k \in DOMAIN points}
             min_y == CHOOSE v \in ys : \A u \in ys : v <= u
             max_y == CHOOSE v \in ys : \A u \in ys : v >= u
         IN clip_all(buf, w, h, color, UNION {poly_row(points, y) : y \in min_y..max_y})

(***************************************************************************)
(* engine/layers.py                                                        *)
(***************************************************************************)
\* The loop of merge_layers over the names of layer_order still to merge.
RECURSIVE merge_loop(_, _, _)
merge_loop(out, layers, names) ==
  IF names = <<>>
    THEN out
    ELSE LET lname == Head(names)
         IN IF lname \notin DOMAIN layers
              THEN merge_loop(out, layers, Tail(names))
              ELSE merge_loop([p \in 1..Len(out) |->
                                 IF p <= Len(layers[lname]) /\ layers[lname][p] # 0
                                   THEN layers[lname][p] ELSE out[p]],
                              layers, Tail(names))

\* merge_loop without the transparency test: every pixel of a later layer
\* overwrites.
merge_layers_opaque(layers, layer_order, w, h) ==
  IF layer_order = <<>> THEN Zeros(w * h)
  ELSE LET last == layer_order[Len(layer_order)]
       IN IF last \in DOMAIN layers THEN layers[last] ELSE Zeros(w * h)
merge_layers(layers, layer_order, w, h) == merge_loop(Zeros(w * h), layers, layer_order)

\* ensure_layer that adds the buffer to the mapping and forgets the order
\* list.
ensure_layer_unordered(st, name, w, h) ==
  IF name \notin DOMAIN st.layers
    THEN [st EXCEPT !.layers = (name :> Zeros(w * h)) @@ st.layers]
    ELSE st

\* ensure_layer changes the mapping and the order list in place and returns
\* the buffer; here it returns the interpreter state with the layer present.
ensure_layer(st, name, w, h) ==
  IF name \notin DOMAIN st.layers
    THEN [st EXCEPT !.layers = (name :> Zeros(w * h)) @@ st.layers,
                    !.order = Append(st.order, name)]
    ELSE st

inset_fill_on_mask(dest, mask, w, h, color, x, y, rw, rh, inset) ==
  LET x0 == x + inset
      y0 == y + inset
      x1 == x + rw - inset - 1
      y1 == y + rh - inset - 1
  IN setitems(dest, {idx \in {yy * w + xx : yy \in {v \in y0..y1 : 0 <= v /\ v < h},
                                            xx \in {u \in x0..x1 : 0 <= u /\ u < w}} :
                       mask[idx + 1] # 0},
              color)

\* An outline that colours every zero pixel of the mask, however far from
\* the shape.
outline_from_mask_everywhere(dest, mask, w, h, outline_color, thickness) ==
  IF thickness <= 0
    THEN dest
    ELSE setitems(dest, {idx \in 0..(w * h - 1) : mask[idx + 1] = 0}, outline_color)

outline_from_mask(dest, mask, w, h, outline_color, thickness) ==
  dilate_passes(dest, mask, w, h, outline_color, thickness)

ShadeSides == {"right", "bottom", "top_left", "edge"}

\* The test of shade_band at pixel (x, y) for a supported side.
shade_near(mask, w, h, x, y, side, thickness) ==
  CASE side = "right" ->
         \E t \in 1..thickness : x + t >= w \/ mask[y * w + x + t + 1] = 0
    [] side = "bottom" ->
         \E t \in 1..thickness : y + t >= h \/ mask[(y + t) * w + x + 1] = 0
    [] side = "top_left" ->
         \E t \in 1..thickness :
           \/ y - t < 0
           \/ mask[(y - t) * w + x + 1] = 0
           \/ x - t < 0
           \/ mask[y * w + (x - t) + 1] = 0
    [] OTHER ->
         \E d \in {<<1, 0>>, <<-1, 0>>, <<0, 1>>, <<0, -1>>} :
           LET nx == x + d[1]
               ny == y + d[2]
           IN ~(0 <= nx /\ nx < w /\ 0 <= ny /\ ny < h) \/ mask[ny * w + nx + 1] = 0

\* The row-major loop of shade_band from index idx on.  `same` says that
\* dest and mask are one list (the named layer is the current layer), so a
\* write to dest is seen by the later reads of mask.  An unsupported side
\* raises at the first non-zero mask pixel.
RECURSIVE shade_loop(_, _, _, _, _, _, _, _, _)
shade_loop(dest, mask, w, h, shade_color, side, thickness, same, idx) ==
  IF idx >= w * h
    THEN dest
    ELSE IF mask[idx + 1] = 0
      THEN shade_loop(dest, mask, w, h, shade_color, side, thickness, same, idx + 1)
    ELSE IF side \notin ShadeSides
      THEN Raised
    ELSE IF shade_near(mask, w, h, idx % w, idx \div w, side, thickness)
      THEN LET d2 == [dest EXCEPT ![idx + 1] = shade_color]
           IN shade_loop(d2, IF same THEN d2 ELSE mask, w, h, shade_color, side,
                         thickness, same, idx + 1)
      ELSE shade_loop(dest, mask, w, h, shade_color, side, thickness, same, idx + 1)

shade_band(dest, mask, w, h, shade_color, side, thickness, same) ==
  shade_loop(dest, mask, w, h, shade_color, py_lower(side), thickness, same, 0)

\* Arithmetic modulo 2^31 on numbers below 2^31 that never leaves the
\* 32-bit integers of the checker.
Add31(a, b) == IF a > 2147483647 - b THEN (a - (2147483647 - b)) - 1 ELSE a + b
\* (d * b) mod 2^31 for a digit d < 2^8: b is split at bit 23.
MulDigit31(d, b) ==
  Add31(d * (b % 8388608), ((d * (b \div 8388608)) % 256) * 8388608)
\* (a * b) mod 2^31, over the base-2^8 digits of a.
RECURSIVE Mul31(_, _)
Mul31(a, b) ==
  IF a = 0
    THEN 0
    ELSE Add31((Mul31(a \div 256, b) % 8388608) * 256, MulDigit31(a % 256, b))
\* seed & 0x7FFFFFFF
Mask31(seed) == IF seed >= 0 THEN seed ELSE (seed + 2147483647) + 1
\* (1103515245 * x + 12345) & 0x7FFFFFFF
lcg_next(x) == Add31(Mul31(1103515245, x), 12345)

\* The loop of noise_points with the index taken before the generator is
\* advanced.
RECURSIVE noise_indices_stale(_, _, _)
noise_indices_stale(eligible, x, count) ==
  IF count <= 0
    THEN {}
    ELSE {eligible[(x % Len(eligible)) + 1]}
         \cup noise_indices_stale(eligible, lcg_next(x), count - 1)

\* The indices the `count` iterations of noise_points write, from LCG state x.
RECURSIVE noise_indices(_, _, _)
noise_indices(eligible, x, count) ==
  IF count <= 0
    THEN {}
    ELSE LET x2 == lcg_next(x)
         IN {eligible[(x2 % Len(eligible)) + 1]} \cup noise_indices(eligible, x2, count - 1)

\* [i for i, v in enumerate(mask) if v != 0], from index idx on.
RECURSIVE select_indices(_, _)
select_indices(mask, idx) ==
  IF idx >= Len(mask)
    THEN <<>>
    ELSE (IF mask[idx + 1] # 0 THEN <<idx>> ELSE <<>>) \o select_indices(mask, idx + 1)

noise_points(dest, mask, w, h, color, count, seed) ==
  LET eligible == select_indices(mask, 0)
  IN IF eligible = <<>> \/ count <= 0
       THEN dest
       ELSE setitems(dest, noise_indices(eligible, Mask31(seed), count), color)

(***************************************************************************)
(* engine/render.py: render_frame                                          *)
(***************************************************************************)
\* The interpreter state of one render_frame call: the layer mapping, the
\* order list, the current layer name, and "ok" or the error that ended it.
\* A render_frame that starts from what the previous call left behind.
InitFrame_stale(w, h) ==
  [layers |-> rf_layers, order |-> rf_order, current |-> rf_current, status |-> "ok"]
InitFrame(w, h) ==
  [layers |-> ("base" :> Zeros(w * h)), order |-> <<"base">>, current |-> "base",
   status |-> "ok"]

\* The closure merged() of render_frame.
merged(st, w, h) == merge_layers(st.layers, st.order, w, h)

fail(st, why) == [st EXCEPT !.status = why]

\* op has the arguments op[a..b] and int() accepts each.
ints_ok(op, a, b) == oplen(op) > b /\ \A k \in a..b : int_ok(arg(op, k))
ai(op, k) == py_int(arg(op, k))

\* buf = ensure_layer(layers, layer_order, current, w, h): the buffer a
\* drawing op is about to change.
cur_buf(st, w, h) ==
  LET s1 == ensure_layer(st, st.current, w, h) IN s1.layers[s1.current]

\* A primitive that draws into the first layer of the order, whichever
\* layer is current.
draw_first(st, w, h, nb) ==
  LET s1 == ensure_layer(st, st.current, w, h)
  IN IF nb = Raised
       THEN fail(s1, "index_error")
       ELSE [s1 EXCEPT !.layers[s1.order[1]] = nb]

\* The state after a primitive changed that buffer in place to nb; an
\* IndexError of the primitive ends the call.
draw(st, w, h, nb) ==
  LET s1 == ensure_layer(st, st.current, w, h)
  IN IF nb = Raised
       THEN fail(s1, "index_error")
       ELSE [s1 EXCEPT !.layers[s1.current] = nb]

\* clear that first makes sure the current layer exists.
op_clear_ensure(st, op, w, h) ==
  IF ~ints_ok(op, 1, 1) THEN fail(st, "bad_args")
  ELSE LET s1 == ensure_layer(st, st.current, w, h)
       IN [s1 EXCEPT !.layers = [k \in DOMAIN s1.layers |-> Filled(ai(op, 1), w * h)]]

op_clear(st, op, w, h) ==
  IF ~ints_ok(op, 1, 1) THEN fail(st, "bad_args")
  ELSE [st EXCEPT !.layers = [k \in DOMAIN st.layers |-> Filled(ai(op, 1), w * h)]]

op_layer_begin(st, op, w, h) ==
  IF oplen(op) < 2 THEN fail(st, "bad_args")
  ELSE ensure_layer([st EXCEPT !.current = py_str(arg(op, 1))], py_str(arg(op, 1)), w, h)

op_layer_end(st, op, w, h) == [st EXCEPT !.current = "base"]

\* layer_merge that adds the merged layer and keeps the layers it merged.
op_layer_merge_keep(st, op, w, h) ==
  LET target == IF oplen(op) > 1 THEN py_str(arg(op, 1)) ELSE "base"
      m == merged(st, w, h)
  IN [st EXCEPT !.layers = (target :> m) @@ st.layers,
                !.order = IF target \in DOMAIN st.layers THEN st.order ELSE Append(st.order, target),
                !.current = target]

op_layer_merge(st, op, w, h) ==
  LET target == IF oplen(op) > 1 THEN py_str(arg(op, 1)) ELSE "base"
      m == merged(st, w, h)
  IN [st EXCEPT !.layers = (target :> m), !.order = <<target>>, !.current = target]

op_pixel(st, op, w, h) ==
  IF ~ints_ok(op, 1, 3) THEN fail(st, "bad_args")
  ELSE draw(st, w, h, plot_all(cur_buf(st, w, h), w, h, ai(op, 1), {<<ai(op, 2), ai(op, 3)>>}))

op_line(st, op, w, h) ==
  IF ~ints_ok(op, 1, 5) THEN fail(st, "bad_args")
  ELSE draw(st, w, h, draw_line(cur_buf(st, w, h), w, h, ai(op, 1), ai(op, 2), ai(op, 3),
                                           ai(op, 4), ai(op, 5)))

\* The ops rect and rect_stroke.
op_rect_stroke(st, op, w, h) ==
  IF ~ints_ok(op, 1, 5) THEN fail(st, "bad_args")
  ELSE draw(st, w, h, rect_stroke(cur_buf(st, w, h), w, h, ai(op, 1), ai(op, 2), ai(op, 3),
                                             ai(op, 4), ai(op, 5)))

op_rect_fill(st, op, w, h) ==
  IF ~ints_ok(op, 1, 5) THEN fail(st, "bad_args")
  ELSE draw(st, w, h, rect_fill(cur_buf(st, w, h), w, h, ai(op, 1), ai(op, 2), ai(op, 3),
                                           ai(op, 4), ai(op, 5)))

op_color_replace(st, op, w, h) ==
  IF ~ints_ok(op, 1, 2) THEN fail(st, "bad_args")
  ELSE LET mname == IF oplen(op) > 3 THEN py_str(arg(op, 3)) ELSE ""
           has_mask == mname # "" /\ mname \in DOMAIN st.layers /\ w * h > 0
           mask == IF has_mask THEN st.layers[mname] ELSE <<>>
       IN draw(st, w, h, color_replace(cur_buf(st, w, h), w, h, ai(op, 1), ai(op, 2),
                                                  has_mask, mask))

op_mask_layer(st, op, w, h) ==
  IF oplen(op) < 2 THEN fail(st, "bad_args")
  ELSE LET mname == py_str(arg(op, 1))
       IN IF mname \in DOMAIN st.layers /\ w * h > 0
            THEN draw(st, w, h, mask_layer_fn(cur_buf(st, w, h), st.layers[mname]))
            ELSE st

op_outline_layer(st, op, w, h) ==
  IF ~ints_ok(op, 1, 1) \/ (oplen(op) > 2 /\ ~int_ok(arg(op, 2))) THEN fail(st, "bad_args")
  ELSE draw(st, w, h, outline_layer(cur_buf(st, w, h), w, h,
                                               IF oplen(op) > 2 THEN ai(op, 2) ELSE 1,
                                               ai(op, 1)))

op_dither_rect(st, op, w, h) ==
  IF ~ints_ok(op, 1, 5) THEN fail(st, "bad_args")
  ELSE draw(st, w, h, dither_rect(cur_buf(st, w, h), w, h, ai(op, 1), ai(op, 2), ai(op, 3),
                                             ai(op, 4), ai(op, 5),
                                             IF oplen(op) > 6 THEN py_str(arg(op, 6))
                                             ELSE "checker"))

\* `[int(x) for x in op[1].split(",")] if isinstance(op[1], str) else
\* [int(op[1])]` of the gradient branches: the index lists the strings of
\* the model decode to; int() rejects any other string, and a JSON array.
IndexLists ==
  ("1" :> <<1>>) @@ ("1,2" :> <<1, 2>>) @@ ("1, 2" :> <<1, 2>>) @@ ("2,1,0" :> <<2, 1, 0>>)
    @@ ("1,9" :> <<1, 9>>)
indices_ok(v) == v.t = "int" \/ (v.t = "str" /\ v.s \in DOMAIN IndexLists)
gradient_indices(v) == IF v.t = "int" THEN <<v.i>> ELSE IndexLists[v.s]

op_gradient_linear(st, op, w, h) ==
  IF oplen(op) < 2 \/ ~indices_ok(arg(op, 1)) \/ ~ints_ok(op, 2, 5) THEN fail(st, "bad_args")
  ELSE draw(st, w, h, gradient_linear(cur_buf(st, w, h), w, h, gradient_indices(arg(op, 1)),
                                             ai(op, 2), ai(op, 3), ai(op, 4), ai(op, 5)))

op_gradient_radial(st, op, w, h) ==
  IF oplen(op) < 2 \/ ~indices_ok(arg(op, 1)) \/ ~ints_ok(op, 2, 4) THEN fail(st, "bad_args")
  ELSE draw(st, w, h, gradient_radial(cur_buf(st, w, h), w, h, gradient_indices(arg(op, 1)),
                                      ai(op, 2), ai(op, 3), ai(op, 4)))

op_thick_line(st, op, w, h) ==
  IF ~ints_ok(op, 1, 6) THEN fail(st, "bad_args")
  ELSE draw(st, w, h, draw_thick_line(cur_buf(st, w, h), w, h, ai(op, 1), ai(op, 2), ai(op, 3),
                                      ai(op, 4), ai(op, 5), ai(op, 6)))

op_capsule_fill(st, op, w, h) ==
  IF ~ints_ok(op, 1, 6) THEN fail(st, "bad_args")
  ELSE draw(st, w, h, capsule_fill(cur_buf(st, w, h), w, h, ai(op, 1), ai(op, 2), ai(op, 3),
                                   ai(op, 4), ai(op, 5), ai(op, 6)))

op_ellipse_fill(st, op, w, h) ==
  IF ~ints_ok(op, 1, 5) THEN fail(st, "bad_args")
  ELSE draw(st, w, h, ellipse_fill(cur_buf(st, w, h), w, h, ai(op, 1), ai(op, 2), ai(op, 3),
                                   ai(op, 4), ai(op, 5)))

op_ellipse_stroke(st, op, w, h) ==
  IF ~ints_ok(op, 1, 5) THEN fail(st, "bad_args")
  ELSE draw(st, w, h, ellipse_stroke(cur_buf(st, w, h), w, h, ai(op, 1), ai(op, 2), ai(op, 3),
                                     ai(op, 4), ai(op, 5)))

op_circle_fill(st, op, w, h) ==
  IF ~ints_ok(op, 1, 4) THEN fail(st, "bad_args")
  ELSE draw(st, w, h, ellipse_fill(cur_buf(st, w, h), w, h, ai(op, 1), ai(op, 2), ai(op, 3),
                                   ai(op, 4), ai(op, 4)))

op_bezier(st, op, w, h) ==
  IF ~ints_ok(op, 1, 7) THEN fail(st, "bad_args")
  ELSE draw(st, w, h, draw_bezier(cur_buf(st, w, h), w, h, ai(op, 1), ai(op, 2), ai(op, 3),
                                  ai(op, 4), ai(op, 5), ai(op, 6), ai(op, 7)))

\* The poly_fill branch: the arguments after the colour are taken in pairs
\* with float(); an odd number of them ends the call with an IndexError on
\* the op itself, before any layer is touched.  float() accepts what int()
\* accepts among the values of the model, and a point of the model is a
\* pair of integers.
op_poly_fill(st, op, w, h) ==
  IF ~ints_ok(op, 1, oplen(op) - 1) \/ oplen(op) % 2 = 1 THEN fail(st, "bad_args")
  ELSE draw(st, w, h, draw_poly(cur_buf(st, w, h), w, h, ai(op, 1),
                                [k \in 1..((oplen(op) - 2) \div 2) |->
                                   <<ai(op, 2 * k), ai(op, 2 * k + 1)>>]))

\* The loops of the mirror branch: the left half is copied onto the right
\* half (axis x), the top half onto the bottom half (axis y).
mirror_buf(buf, w, h, axis) ==
  [p \in 1..Len(buf) |->
     LET x == (p - 1) % w
         y == (p - 1) \div w
     IN IF axis = "x" /\ (w - 1 - x) < w \div 2 THEN buf[y * w + (w - 1 - x) + 1]
        ELSE IF axis = "y" /\ (h - 1 - y) < h \div 2 THEN buf[(h - 1 - y) * w + x + 1]
        ELSE buf[p]]

op_mirror(st, op, w, h) ==
  draw(st, w, h, mirror_buf(cur_buf(st, w, h), w, h,
                                       IF oplen(op) > 1 THEN py_str(arg(op, 1)) ELSE "x"))

\* copy_layer that appends dst to the order list whether or not it is new.
op_copy_layer_append(st, op, w, h) ==
  IF oplen(op) < 3 THEN fail(st, "bad_args")
  ELSE LET src_name == py_str(arg(op, 1))
           dst_name == py_str(arg(op, 2))
       IN IF src_name \in DOMAIN st.layers /\ w * h > 0
            THEN [st EXCEPT !.layers = (dst_name :> st.layers[src_name]) @@ st.layers,
                            !.order = Append(st.order, dst_name)]
            ELSE st

op_copy_layer(st, op, w, h) ==
  IF oplen(op) < 3 THEN fail(st, "bad_args")
  ELSE LET src_name == py_str(arg(op, 1))
           dst_name == py_str(arg(op, 2))
       IN IF src_name \in DOMAIN st.layers /\ w * h > 0
            THEN [st EXCEPT !.layers = (dst_name :> st.layers[src_name]) @@ st.layers,
                            !.order = IF \E k \in 1..Len(st.order) : st.order[k] = dst_name
                                        THEN st.order ELSE Append(st.order, dst_name)]
            ELSE st

\* The loops of the translate branch.
translate_buf(buf, w, h, dx, dy) ==
  [p \in 1..Len(buf) |->
     LET sx == ((p - 1) % w) - dx
         sy == ((p - 1) \div w) - dy
     IN IF 0 <= sx /\ sx < w /\ 0 <= sy /\ sy < h THEN buf[sy * w + sx + 1] ELSE 0]

op_translate(st, op, w, h) ==
  IF ~ints_ok(op, 1, 2) THEN fail(st, "bad_args")
  ELSE draw(st, w, h, translate_buf(cur_buf(st, w, h), w, h, ai(op, 1), ai(op, 2)))

op_fill(st, op, w, h) ==
  IF ~ints_ok(op, 1, 3) THEN fail(st, "bad_args")
  ELSE draw(st, w, h, flood_fill(cur_buf(st, w, h), w, h, ai(op, 1), ai(op, 2), ai(op, 3)))

op_inset_fill(st, op, w, h) ==
  IF ~ints_ok(op, 1, 6) THEN fail(st, "bad_args")
  ELSE LET s1 == ensure_layer(st, st.current, w, h)
       IN draw(s1, w, h, inset_fill_on_mask(cur_buf(s1, w, h), merged(s1, w, h), w, h, ai(op, 1),
                                                       ai(op, 2), ai(op, 3), ai(op, 4),
                                                       ai(op, 5), ai(op, 6)))

op_shade_band(st, op, w, h) ==
  IF ~ints_ok(op, 1, 1) \/ oplen(op) < 4 \/ (oplen(op) > 4 /\ ~int_ok(arg(op, 4)))
    THEN fail(st, "bad_args")
  ELSE LET layer_name == py_str(arg(op, 2))
           s1 == ensure_layer(st, st.current, w, h)
           nb == shade_band(s1.layers[s1.current], s1.layers[layer_name], w, h, ai(op, 1),
                            py_str(arg(op, 3)), IF oplen(op) > 4 THEN ai(op, 4) ELSE 1,
                            layer_name = s1.current)
       IN IF layer_name \notin DOMAIN s1.layers THEN fail(s1, "missing_layer")
          ELSE IF nb = Raised THEN fail(s1, "bad_side")
          ELSE [s1 EXCEPT !.layers[s1.current] = nb]

op_noise_points(st, op, w, h) ==
  IF ~ints_ok(op, 1, 1) \/ oplen(op) < 5 \/ ~int_ok(arg(op, 3)) \/ ~int_ok(arg(op, 4))
    THEN fail(st, "bad_args")
  ELSE LET layer_name == py_str(arg(op, 2))
           s1 == ensure_layer(st, st.current, w, h)
       IN IF layer_name \notin DOMAIN s1.layers THEN fail(s1, "missing_layer")
          ELSE draw(s1, w, h, noise_points(cur_buf(s1, w, h), s1.layers[layer_name], w, h,
                                                      ai(op, 1), ai(op, 3), ai(op, 4)))

op_outline(st, op, w, h) ==
  IF ~ints_ok(op, 1, 1) \/ (oplen(op) > 2 /\ ~int_ok(arg(op, 2))) THEN fail(st, "bad_args")
  ELSE LET s1 == ensure_layer(st, st.current, w, h)
           m == merged(s1, w, h)
           mask == [p \in 1..Len(m) |-> IF m[p] # 0 THEN 1 ELSE 0]
       IN draw(s1, w, h, outline_from_mask(cur_buf(s1, w, h), mask, w, h, ai(op, 1),
                                                      IF oplen(op) > 2 THEN ai(op, 2) ELSE 1))

\* The names the if/elif chain of render_frame handles and this model
\* translates; the chain handles one more (rotate), which no op of the
\* model uses.
RenderNames ==
  {"clear", "layer_begin", "layer_end", "layer_merge", "pixel", "line", "rect",
   "rect_fill", "rect_stroke", "color_replace", "mask_layer", "outline_layer",
   "dither_rect", "mirror", "copy_layer", "translate", "fill", "inset_fill",
   "shade_band", "noise_points", "outline", "gradient_linear", "gradient_radial",
   "thick_line", "capsule_fill", "ellipse_fill", "ellipse_stroke", "circle_fill",
   "bezier", "poly_fill"}

\* One iteration of `for op in ops` in render_frame.
exec_op(st, op, w, h) ==
  IF op.t # "list" \/ oplen(op) = 0 THEN fail(st, "bad_op")
  ELSE IF arg(op, 0).t # "str" \/ arg(op, 0).s \notin RenderNames THEN fail(st, "unknown_op")
  ELSE LET name == arg(op, 0).s
       IN CASE name = "clear" -> op_clear(st, op, w, h)
            [] name = "layer_begin" -> op_layer_begin(st, op, w, h)
            [] name = "layer_end" -> op_layer_end(st, op, w, h)
            [] name = "layer_merge" -> op_layer_merge(st, op, w, h)
            [] name = "pixel" -> op_pixel(st, op, w, h)
            [] name = "line" -> op_line(st, op, w, h)
            [] name = "rect" -> op_rect_stroke(st, op, w, h)
            [] name = "rect_fill" -> op_rect_fill(st, op, w, h)
            [] name = "rect_stroke" -> op_rect_stroke(st, op, w, h)
            [] name = "color_replace" -> op_color_replace(st, op, w, h)
            [] name = "mask_layer" -> op_mask_layer(st, op, w, h)
            [] name = "outline_layer" -> op_outline_layer(st, op, w, h)
            [] name = "dither_rect" -> op_dither_rect(st, op, w, h)
            [] name = "mirror" -> op_mirror(st, op, w, h)
            [] name = "copy_layer" -> op_copy_layer(st, op, w, h)
            [] name = "translate" -> op_translate(st, op, w, h)
            [] name = "fill" -> op_fill(st, op, w, h)
            [] name = "inset_fill" -> op_inset_fill(st, op, w, h)
            [] name = "shade_band" -> op_shade_band(st, op, w, h)
            [] name = "noise_points" -> op_noise_points(st, op, w, h)
            [] name = "gradient_linear" -> op_gradient_linear(st, op, w, h)
            [] name = "gradient_radial" -> op_gradient_radial(st, op, w, h)
            [] name = "thick_line" -> op_thick_line(st, op, w, h)
            [] name = "capsule_fill" -> op_capsule_fill(st, op, w, h)
            [] name = "ellipse_fill" -> op_ellipse_fill(st, op, w, h)
            [] name = "ellipse_stroke" -> op_ellipse_stroke(st, op, w, h)
            [] name = "circle_fill" -> op_circle_fill(st, op, w, h)
            [] name = "bezier" -> op_bezier(st, op, w, h)
            [] name = "poly_fill" -> op_poly_fill(st, op, w, h)
            [] OTHER -> op_outline(st, op, w, h)

\* The loop of render_frame from state st over the ops still to run; it
\* stops at the first op that raises.
RECURSIVE run_ops(_, _, _, _)
run_ops(st, ops, w, h) ==
  IF ops = <<>> \/ st.status # "ok"
    THEN st
    ELSE run_ops(exec_op(st, Head(ops), w, h), Tail(ops), w, h)

\* render_frame(ops, w, h): the final state; its buffer is merged() of it
\* when the status is "ok", and the call raised otherwise.
render_frame(ops, w, h) == run_ops(InitFrame(w, h), ops, w, h)

(***************************************************************************)
(* engine/ops.py                                                           *)
(***************************************************************************)
\* OpSpec(name, min_args, max_args, arg_types, description, requires_layer,
\* requires_seed); requires_layer is the argument position, -1 for None.
\* An op table in which an op that requires a seed may come without its
\* last argument.
OpSpec_seed_optional(min_args, max_args, arg_types, requires_layer, requires_seed) ==
  [min_args |-> IF requires_seed THEN min_args - 1 ELSE min_args, max_args |-> max_args,
   arg_types |-> arg_types, requires_layer |-> requires_layer,
   requires_seed |-> requires_seed]

OpSpec(min_args, max_args, arg_types, requires_layer, requires_seed) ==
  [min_args |-> min_args, max_args |-> max_args, arg_types |-> arg_types,
   requires_layer |-> requires_layer, requires_seed |-> requires_seed]

C5I == <<"color_idx", "int", "int", "int", "int">>
C6I == <<"color_idx", "int", "int", "int", "int", "int">>

OP_SPECS ==
  ("clear" :> OpSpec(1, 1, <<"color_idx">>, -1, FALSE)) @@
  ("pixel" :> OpSpec(3, 3, <<"color_idx", "int", "int">>, -1, FALSE)) @@
  ("layer_begin" :> OpSpec(1, 1, <<"str">>, -1, FALSE)) @@
  ("layer_end" :> OpSpec(0, 0, <<>>, -1, FALSE)) @@
  ("layer_merge" :> OpSpec(0, 1, <<"str">>, -1, FALSE)) @@
  ("copy_layer" :> OpSpec(2, 2, <<"str", "str">>, -1, FALSE)) @@
  ("line" :> OpSpec(5, 5, C5I, -1, FALSE)) @@
  ("thick_line" :> OpSpec(6, 6, C6I, -1, FALSE)) @@
  ("rect" :> OpSpec(5, 5, C5I, -1, FALSE)) @@
  ("rect_fill" :> OpSpec(5, 5, C5I, -1, FALSE)) @@
  ("rect_stroke" :> OpSpec(5, 5, C5I, -1, FALSE)) @@
  ("ellipse_fill" :> OpSpec(5, 5, C5I, -1, FALSE)) @@
  ("ellipse_stroke" :> OpSpec(5, 5, C5I, -1, FALSE)) @@
  ("circle_fill" :> OpSpec(4, 4, <<"color_idx", "int", "int", "int">>, -1, FALSE)) @@
  ("capsule_fill" :> OpSpec(6, 6, C6I, -1, FALSE)) @@
  ("poly_fill" :> OpSpec(3, 100, <<"color_idx">>, -1, FALSE)) @@
  ("bezier" :> OpSpec(7, 7, <<"color_idx", "int", "int", "int", "int", "int", "int">>,
                      -1, FALSE)) @@
  ("fill" :> OpSpec(3, 3, <<"color_idx", "int", "int">>, -1, FALSE)) @@
  ("inset_fill" :> OpSpec(6, 6, C6I, -1, FALSE)) @@
  ("dither_rect" :> OpSpec(5, 6, <<"color_idx", "int", "int", "int", "int", "str">>,
                           -1, FALSE)) @@
  ("gradient_radial" :> OpSpec(4, 4, <<"str", "int", "int", "int">>, -1, FALSE)) @@
  ("gradient_linear" :> OpSpec(5, 5, <<"str", "int", "int", "int", "int">>, -1, FALSE)) @@
  ("mask_layer" :> OpSpec(1, 1, <<"layer_name">>, 0, FALSE)) @@
  ("outline" :> OpSpec(1, 2, <<"color_idx", "int">>, -1, FALSE)) @@
  ("outline_layer" :> OpSpec(1, 2, <<"color_idx", "int">>, -1, FALSE)) @@
  ("shade_band" :> OpSpec(3, 4, <<"color_idx", "layer_name", "str", "int">>, 1, FALSE)) @@
  ("noise_points" :> OpSpec(4, 4, <<"color_idx", "layer_name", "int", "int">>, 1, TRUE)) @@
  ("color_replace" :> OpSpec(2, 3, <<"color_idx", "color_idx", "layer_name">>, -1, FALSE)) @@
  ("translate" :> OpSpec(2, 2, <<"int", "int">>, -1, FALSE)) @@
  ("rotate" :> OpSpec(1, 3, <<"float", "float", "float">>, -1, FALSE)) @@
  ("mirror" :> OpSpec(0, 1, <<"str">>, -1, FALSE))

(***************************************************************************)
(* engine/validate.py                                                      *)
(***************************************************************************)
\* ValidationError(message, path, frame, op_index): the message is named by
\* its kind; frame and op_index are -1 for None.
ValidationError(message, frame, op_index) ==
  [message |-> message, frame |-> frame, op_index |-> op_index]

\* What a function that returns a list or raises gives back.
Returned(list) == [raised |-> FALSE, list |-> list]
Raises == [raised |-> TRUE, list |-> <<>>]

\* The words of the message texts validate_frame builds for a frame's base
\* and shape (lines 109, 111, 114); the number after "got" is left out.
message_text(message) ==
  CASE message = "base_int" -> <<"Frame", "'base'", "must", "be", "an", "integer">>
    [] message = "base_earlier" ->
         <<"Frame", "'base'", "must", "reference", "an", "earlier", "frame", "(got", ")">>
    [] message = "inherit_shape" ->
         <<"Inherited", "frame", "must", "have", "'overrides'", "or", "'append_ops'">>
    [] OTHER -> <<message>>

\* The loop `for i, arg in enumerate(op[1:])` of validate_op from i on.
RECURSIVE palette_errors(_, _, _, _, _, _)
palette_errors(op, spec, i, palette_size, frame_idx, op_idx) ==
  IF i + 1 >= oplen(op)
    THEN <<>>
    ELSE (IF /\ i < Len(spec.arg_types)
             /\ spec.arg_types[i + 1] = "color_idx"
             /\ arg(op, i + 1).t = "int"
             /\ (arg(op, i + 1).i < 0 \/ arg(op, i + 1).i >= palette_size)
            THEN <<ValidationError("palette_index", frame_idx, op_idx)>>
            ELSE <<>>)
         \o palette_errors(op, spec, i + 1, palette_size, frame_idx, op_idx)

\* The block `if spec.requires_layer:` of validate_op.  requires_layer is a
\* string in the code ("0", "1") and None otherwise, so the test holds
\* exactly when it is set.
layer_errors(op, spec, defined_layers, frame_idx, op_idx) ==
  IF /\ spec.requires_layer # -1
     /\ spec.requires_layer + 1 < oplen(op)
     /\ py_str(arg(op, spec.requires_layer + 1)) \notin defined_layers
    THEN <<ValidationError("undefined_layer", frame_idx, op_idx)>>
    ELSE <<>>

validate_op(op, op_idx, palette_size, defined_layers, frame_idx, strict) ==
  IF op.t # "list" THEN <<ValidationError("op_array", frame_idx, op_idx)>>
  ELSE IF oplen(op) = 0 THEN <<ValidationError("op_empty", frame_idx, op_idx)>>
  ELSE IF arg(op, 0).t # "str" THEN <<ValidationError("op_name", frame_idx, op_idx)>>
  ELSE IF arg(op, 0).s \notin DOMAIN OP_SPECS
    THEN <<ValidationError("op_unknown", frame_idx, op_idx)>>
  ELSE LET spec == OP_SPECS[arg(op, 0).s]
           arg_count == oplen(op) - 1
       IN (IF arg_count < spec.min_args
             THEN <<ValidationError("op_min_args", frame_idx, op_idx)>>
             ELSE IF arg_count > spec.max_args
               THEN <<ValidationError("op_max_args", frame_idx, op_idx)>>
               ELSE <<>>)
          \o palette_errors(op, spec, 0, palette_size, frame_idx, op_idx)
          \o layer_errors(op, spec, defined_layers, frame_idx, op_idx)
          \o (IF spec.requires_seed /\ strict /\ arg(op, 0).s = "noise_points" /\ oplen(op) < 5
                THEN <<ValidationError("seed", frame_idx, op_idx)>>
                ELSE <<>>)

\* The loop over frame["ops"] of validate_frame from position k (from 1) on,
\* with the layers defined so far.
RECURSIVE validate_ops(_, _, _, _, _, _)
validate_ops(ops, k, palette_size, defined_layers, frame_idx, strict) ==
  IF k > Len(ops)
    THEN <<>>
    ELSE LET op == ops[k]
             defined2 == IF op.t = "list" /\ oplen(op) >= 2 /\ arg(op, 0) = S("layer_begin")
                           THEN defined_layers \cup {py_str(arg(op, 1))}
                           ELSE defined_layers
         IN validate_op(op, k - 1, palette_size, defined_layers, frame_idx, strict)
            \o validate_ops(ops, k + 1, palette_size, defined2, frame_idx, strict)

\* The checks of frame["base"] with `>` where the code has `>=`.
validate_base_later_only(frame, frame_idx) ==
  IF frame.base.t # "int"
    THEN <<ValidationError("base_int", frame_idx, -1)>>
    ELSE IF frame.base.i > frame_idx
      THEN <<ValidationError("base_earlier", frame_idx, -1)>>
      ELSE <<>>

\* Lines 108-111 of validate_frame: the checks of frame["base"].
validate_base(frame, frame_idx) ==
  IF frame.base.t # "int"
    THEN <<ValidationError("base_int", frame_idx, -1)>>
    ELSE IF frame.base.i >= frame_idx
      THEN <<ValidationError("base_earlier", frame_idx, -1)>>
      ELSE <<>>

\* Lines 112-114 of validate_frame.
validate_shape(frame, frame_idx) ==
  IF "ops" \notin frame.keys /\ "overrides" \notin frame.keys /\ "append_ops" \notin frame.keys
    THEN <<ValidationError("inherit_shape", frame_idx, -1)>>
    ELSE <<>>

\* validate_frame: a frame that is a number makes `"base" in frame` raise;
\* a frame that is an (empty) list holds no key.
validate_frame(frame, frame_idx, palette_size, strict) ==
  IF frame.t = "int" THEN Raises
  ELSE LET keys == IF frame.t = "dict" THEN frame.keys ELSE {}
       IN IF "base" \in keys
            THEN Returned(validate_base(frame, frame_idx) \o validate_shape(frame, frame_idx))
            ELSE IF "ops" \notin keys
              THEN Returned(<<ValidationError("ops_missing", frame_idx, -1)>>)
              ELSE IF frame.ops.t # "list"
                THEN Returned(<<ValidationError("ops_array", frame_idx, -1)>>)
                ELSE Returned(validate_ops(frame.ops.l, 1, palette_size, {"base"},
                                           frame_idx, strict))

\* The canvas block of validate_sprite (lines 48-57).  canvas.has holds the
\* keys among "w", "h" that `in` finds in the value: the keys of a dict, the
\* members of a list.  A number raises at `in`; a list that holds both
\* strings raises at canvas["w"].
validate_canvas(canvas) ==
  IF canvas.t = "absent" THEN Returned(<<ValidationError("canvas_missing", -1, -1)>>)
  ELSE IF canvas.t = "int" THEN Raises
  ELSE IF "w" \notin canvas.has \/ "h" \notin canvas.has
    THEN Returned(<<ValidationError("canvas_wh", -1, -1)>>)
  ELSE IF canvas.t # "dict" THEN Raises
  ELSE IF canvas.w.t # "int" \/ canvas.h.t # "int"
    THEN Returned(<<ValidationError("canvas_int", -1, -1)>>)
  ELSE IF canvas.w.i <= 0 \/ canvas.h.i <= 0
    THEN Returned(<<ValidationError("canvas_positive", -1, -1)>>)
  ELSE Returned(<<>>)

\* str.startswith("#") on the colour strings of the model.
starts_hash(s) == s \in {"#000", "#111", "#222", "#333", "#"}

\* The loop over the palette entries (lines 68-72) from position k on.
RECURSIVE palette_colors(_, _)
palette_colors(items, k) ==
  IF k > Len(items)
    THEN <<>>
    ELSE (IF items[k].t # "str" THEN <<ValidationError("color_string", -1, -1)>>
          ELSE IF ~starts_hash(items[k].s) THEN <<ValidationError("color_hash", -1, -1)>>
          ELSE <<>>)
         \o palette_colors(items, k + 1)

\* The palette block of validate_sprite (lines 60-72); it raises nothing.
validate_palette(palette) ==
  IF palette.t = "absent" THEN <<ValidationError("palette_missing", -1, -1)>>
  ELSE IF palette.t # "list" THEN <<ValidationError("palette_array", -1, -1)>>
  ELSE IF Len(palette.items) = 0 THEN <<ValidationError("palette_empty", -1, -1)>>
  ELSE palette_colors(palette.items, 1)

\* len(data.get(key, [])): 0 when the key is absent, the length of a list or
\* of a string, TypeError (has_len false) for a number.
has_len(v) == v.t # "int"
py_len(v) == IF v.t = "absent" THEN 0 ELSE Len(v.items)

\* The loop over data["frames"] (lines 83-85) from position k on.
RECURSIVE validate_frames(_, _, _, _)
validate_frames(items, k, palette_size, strict) ==
  IF k > Len(items)
    THEN Returned(<<>>)
    ELSE LET one == validate_frame(items[k], k - 1, palette_size, strict)
             rest == validate_frames(items, k + 1, palette_size, strict)
         IN IF one.raised \/ rest.raised THEN Raises
            ELSE Returned(one.list \o rest.list)

\* The frames block of validate_sprite (lines 75-85).
validate_frames_block(data, strict) ==
  IF data.frames.t = "absent" THEN Returned(<<ValidationError("frames_missing", -1, -1)>>)
  ELSE IF data.frames.t # "list" THEN Returned(<<ValidationError("frames_array", -1, -1)>>)
  ELSE IF Len(data.frames.items) = 0
    THEN Returned(<<ValidationError("frames_empty", -1, -1)>>)
  ELSE IF ~has_len(data.palette) THEN Raises
  ELSE validate_frames(data.frames.items, 1, py_len(data.palette), strict)

\* The loop over anim_data["frames"] from position k on.
RECURSIVE anim_frame_errors(_, _, _)
anim_frame_errors(fs, k, frame_count) ==
  IF k > Len(fs)
    THEN <<>>
    ELSE (IF fs[k].t # "int" \/ fs[k].i < 0 \/ fs[k].i >= frame_count
            THEN <<ValidationError("anim_index", -1, -1)>>
            ELSE <<>>)
         \o anim_frame_errors(fs, k + 1, frame_count)

\* The loop over data["animations"].items() from entry k on; an entry that
\* is a number raises at `"frames" in anim_data`.
RECURSIVE validate_anims(_, _, _)
validate_anims(entries, k, frame_count) ==
  IF k > Len(entries)
    THEN Returned(<<>>)
    ELSE LET rest == validate_anims(entries, k + 1, frame_count)
         IN IF entries[k].t # "dict" \/ rest.raised THEN Raises
            ELSE Returned((IF entries[k].has_frames
                             THEN anim_frame_errors(entries[k].frames, 1, frame_count)
                             ELSE <<>>)
                          \o rest.list)

\* The animations block of validate_sprite (lines 88-97).
validate_animations(data) ==
  IF data.animations.t = "absent" THEN Returned(<<>>)
  ELSE IF ~has_len(data.frames) THEN Raises
  ELSE IF data.animations.t # "dict" THEN Raises
  ELSE validate_anims(data.animations.entries, 1, py_len(data.frames))

\* validate_sprite(data, path, strict): the list it returns, or that it
\* raised.  An exception in any block ends the call with no list.
validate_sprite(data, strict) ==
  LET fmt == IF data.format # "spriteops" THEN <<ValidationError("format", -1, -1)>> ELSE <<>>
      cv == validate_canvas(data.canvas)
      fr == validate_frames_block(data, strict)
      an == validate_animations(data)
  IN IF cv.raised \/ fr.raised \/ an.raised THEN Raises
     ELSE Returned(fmt \o cv.list \o validate_palette(data.palette) \o fr.list \o an.list)

(***************************************************************************)
(* engine/render.py: process_frame_inheritance                             *)
(***************************************************************************)
\* The loop over fr["overrides"] from position k on: base_ops after the
\* overrides, or that a list assignment raised IndexError.  An op_index
\* below 0 passes the test `op_idx < len(base_ops)`, and the assignment then
\* counts from the end of the list.  op_index None (absent) is skipped.
RECURSIVE apply_overrides(_, _, _)
apply_overrides(base_ops, overrides, k) ==
  IF k > Len(overrides)
    THEN Returned(base_ops)
    ELSE LET op_idx == overrides[k].op_index
             n == Len(base_ops)
         IN IF op_idx.t = "int" /\ op_idx.i < n
              THEN IF op_idx.i >= 0
                     THEN apply_overrides([base_ops EXCEPT ![op_idx.i + 1] = overrides[k].op],
                                          overrides, k + 1)
                     ELSE IF op_idx.i >= -n
                       THEN apply_overrides([base_ops EXCEPT ![n + op_idx.i + 1] =
                                               overrides[k].op], overrides, k + 1)
                       ELSE Raises
              ELSE apply_overrides(base_ops, overrides, k + 1)

\* The loop of process_frame_inheritance with a derived frame built on the
\* ops its base frame holds itself, not on the resolved ops of the base.
RECURSIVE process_frames_raw(_, _, _)
process_frames_raw(raw_frames, k, processed_ops) ==
  IF k > Len(raw_frames)
    THEN Returned(processed_ops)
    ELSE LET fr == raw_frames[k]
             n == Len(processed_ops)
         IN IF "base" \in fr.keys
              THEN IF ~int_ok(fr.base) \/ py_int(fr.base) >= n \/ py_int(fr.base) < -n
                     THEN Raises
                     ELSE LET base_idx == py_int(fr.base)
                              base_ops == raw_frames[IF base_idx >= 0 THEN base_idx + 1
                                                     ELSE n + base_idx + 1].ops.l
                              over == IF "overrides" \in fr.keys
                                        THEN apply_overrides(base_ops, fr.overrides, 1)
                                        ELSE Returned(base_ops)
                          IN IF over.raised THEN Raises
                             ELSE process_frames_raw(raw_frames, k + 1,
                                    Append(processed_ops,
                                           IF "append_ops" \in fr.keys
                                             THEN over.list \o fr.append_ops
                                             ELSE over.list))
              ELSE IF "ops" \notin fr.keys THEN Raises
              ELSE process_frames_raw(raw_frames, k + 1, Append(processed_ops, fr.ops.l))

\* The loop of process_frame_inheritance from frame k (from 1) on, with the
\* op lists processed so far.
RECURSIVE process_frames(_, _, _)
process_frames(raw_frames, k, processed_ops) ==
  IF k > Len(raw_frames)
    THEN Returned(processed_ops)
    ELSE LET fr == raw_frames[k]
             n == Len(processed_ops)
         IN IF "base" \in fr.keys
              THEN IF ~int_ok(fr.base) \/ py_int(fr.base) >= n \/ py_int(fr.base) < -n
                     THEN Raises
                     ELSE LET base_idx == py_int(fr.base)
                              base_ops == processed_ops[IF base_idx >= 0 THEN base_idx + 1
                                                        ELSE n + base_idx + 1]
                              over == IF "overrides" \in fr.keys
                                        THEN apply_overrides(base_ops, fr.overrides, 1)
                                        ELSE Returned(base_ops)
                          IN IF over.raised THEN Raises
                             ELSE process_frames(raw_frames, k + 1,
                                    Append(processed_ops,
                                           IF "append_ops" \in fr.keys
                                             THEN over.list \o fr.append_ops
                                             ELSE over.list))
              ELSE IF "ops" \notin fr.keys THEN Raises
              ELSE process_frames(raw_frames, k + 1, Append(processed_ops, fr.ops.l))

process_frame_inheritance(raw_frames) == process_frames(raw_frames, 1, <<>>)

(***************************************************************************)
(* tui/app.py: PixelCanvas                                                 *)
(***************************************************************************)
\* A run that goes on over every non-zero pixel, of whatever colour.
RECURSIVE run_end_nonzero(_, _, _, _, _)
run_end_nonzero(buf, w, y, run_end, idx) ==
  IF run_end < w /\ buf[y * w + run_end + 1] # 0
    THEN run_end_nonzero(buf, w, y, run_end + 1, idx)
    ELSE run_end

\* The inner loop of to_ops: the end of the run of idx in row y that
\* reaches run_end.
RECURSIVE run_end_from(_, _, _, _, _)
run_end_from(buf, w, y, run_end, idx) ==
  IF run_end < w /\ buf[y * w + run_end + 1] = idx
    THEN run_end_from(buf, w, y, run_end + 1, idx)
    ELSE run_end

\* `while x < self.canvas_width` of to_ops in row y: the ops from column x on.
RECURSIVE to_ops_row(_, _, _, _)
to_ops_row(buf, w, y, x) ==
  IF x >= w
    THEN <<>>
    ELSE LET idx == buf[y * w + x + 1]
             run_end == run_end_from(buf, w, y, x + 1, idx)
             run_len == run_end - x
         IN IF idx = 0
              THEN to_ops_row(buf, w, y, x + 1)
              ELSE (IF run_len >= 3
                      THEN <<Op(<<S("rect_fill"), I(idx), I(x), I(y), I(run_len), I(1)>>)>>
                      ELSE [k \in 1..run_len |->
                              Op(<<S("pixel"), I(idx), I(x + k - 1), I(y)>>)])
                   \o to_ops_row(buf, w, y, run_end)

\* `for y in range(self.canvas_height)` of to_ops from row y on.
RECURSIVE to_ops_rows(_, _, _, _)
to_ops_rows(buf, w, h, y) ==
  IF y >= h THEN <<>> ELSE to_ops_row(buf, w, y, 0) \o to_ops_rows(buf, w, h, y + 1)

to_ops(buf, w, h) == <<Op(<<S("clear"), I(0)>>)>> \o to_ops_rows(buf, w, h, 0)

\* load_from_ops: the buffer becomes what render_frame returns, if it returns.
load_from_ops(ops, w, h) ==
  LET st == render_frame(ops, w, h)
  IN IF st.status = "ok" THEN Returned(merged(st, w, h)) ELSE Raises

(***************************************************************************)
(* Bounds and the arguments the interpreter is run on                      *)
(***************************************************************************)
\* The canvas is CanvasW x CanvasH; palette indices are 0..MaxColor; one
\* render_frame call runs at most MaxOps ops.
CanvasW == 2
CanvasH == 2
MaxColor == 2
MaxOps == 2
MaxLayerOps == 3
MaxCallOps == 2
MaxCalls == 3
MaxFrameOps == 2
\* The gradient runs on canvases of up to GradW x GradH, MaxGradOps ops a call.
GradW == 4
GradH == 2
MaxGradOps == 1
\* The draw ops run MaxDrawOps ops a call.
MaxDrawOps == 3
\* The editor canvas is EditW x EditH.
EditW == 4
EditH == 2

Colors == 0..MaxColor
\* Coordinates: one step outside the canvas on each side, and all inside.
Xs == -1..CanvasW
Ys == -1..CanvasH
\* Widths and heights: negative, one pixel, and wider than the canvas.
Ws == {-1, 1, CanvasW + 1}
Hs == {-1, 1, CanvasH + 1}
\* Corners a rectangle is put at.
Corners == {<<-1, -1>>, <<0, 0>>, <<CanvasW - 1, 0>>, <<0, CanvasH - 1>>}
\* Layer names: the implicit one, one that ops create, one that no op creates.
LayerNames == {"base", "a"}
NoLayer == "zz"

mk(name, args) == Op(<<S(name)>> \o args)
ints(seq) == [k \in DOMAIN seq |-> I(seq[k])]

(***************************************************************************)
(* The interpreter, one op at a time                                       *)
(***************************************************************************)
NoOp == Op(<<>>)
NoResult == [raised |-> FALSE, list |-> <<>>]
NoMemo == [set |-> FALSE, at |-> 0, ops |-> <<>>, res |-> NoResult]
NoDoc == [format |-> ""]

\* The locals of the running render_frame call as one state.
Frame == [layers |-> rf_layers, order |-> rf_order, current |-> rf_current, status |-> rf_status]

SetFrame(s) ==
  /\ rf_layers' = s.layers
  /\ rf_order' = s.order
  /\ rf_current' = s.current
  /\ rf_status' = s.status

docIdle ==
  /\ doc = NoDoc
  /\ strict_flag = FALSE
  /\ errors = NoResult
  /\ processed = NoResult
  /\ rendered = <<>>

\* No editor is open.
edIdle ==
  /\ canvas_width = 0
  /\ canvas_height = 0
  /\ buffer = <<>>
  /\ cursor_x = 0
  /\ cursor_y = 0
  /\ frame_ops = <<>>

\* render_frame is entered with the canvas size (lines 28-30).
Init ==
  /\ rf_w = CanvasW
  /\ rf_h = CanvasH
  /\ rf_ops = <<>>
  /\ rf_pc = 0
  /\ rf_op = NoOp
  /\ rf_layers = InitFrame(rf_w, rf_h).layers
  /\ rf_order = InitFrame(rf_w, rf_h).order
  /\ rf_current = InitFrame(rf_w, rf_h).current
  /\ rf_status = InitFrame(rf_w, rf_h).status
  /\ result = NoResult
  /\ memo = NoMemo
  /\ calls = 1
  /\ phase = "run"
  /\ docIdle
  /\ edIdle

\* One iteration of the loop of render_frame on op o, the loop having run
\* fewer than limit ops.
Iterate(o, limit) ==
  /\ phase = "run"
  /\ rf_status = "ok"
  /\ rf_pc < limit
  /\ SetFrame(exec_op(Frame, o, rf_w, rf_h))
  /\ rf_ops' = Append(rf_ops, o)
  /\ rf_op' = o
  /\ rf_pc' = rf_pc + 1
  /\ UNCHANGED <<rf_w, rf_h, result, memo, calls, phase>>
  /\ UNCHANGED docVars
  /\ UNCHANGED edVars

Exec(o) == Iterate(o, MaxOps)

Clear == \E c \in Colors : Exec(mk("clear", ints(<<c>>)))
LayerBegin == \E n \in LayerNames : Exec(mk("layer_begin", <<S(n)>>))
LayerEnd == Exec(mk("layer_end", <<>>))
LayerMerge == \E a \in {<<>>} \cup {<<S(n)>> : n \in LayerNames} : Exec(mk("layer_merge", a))
Pixel == \E c \in {0, MaxColor}, x \in Xs, y \in Ys : Exec(mk("pixel", ints(<<c, x, y>>)))
Line ==
  \E p \in Xs \X Ys, q \in {<<CanvasW, CanvasH - 1>>, <<-1, CanvasH>>} :
    Exec(mk("line", ints(<<1, p[1], p[2], q[1], q[2]>>)))
Rect ==
  \E n \in {"rect", "rect_stroke"}, p \in Corners, rw \in Ws, rh \in {-1, CanvasH + 1} :
    Exec(mk(n, ints(<<1, p[1], p[2], rw, rh>>)))
RectFill ==
  \E c \in {0, 1}, p \in Corners, rw \in {1, CanvasW + 1}, rh \in Hs :
    Exec(mk("rect_fill", ints(<<c, p[1], p[2], rw, rh>>)))
ColorReplace ==
  \E c \in Colors, a \in {<<>>} \cup {<<S(n)>> : n \in LayerNames \cup {NoLayer}} :
    Exec(mk("color_replace", ints(<<1, c>>) \o a))
MaskLayer == \E n \in LayerNames \cup {NoLayer} : Exec(mk("mask_layer", <<S(n)>>))
OutlineLayer ==
  \E c \in Colors, a \in {<<>>, <<I(-1)>>, <<I(2)>>} : Exec(mk("outline_layer", <<I(c)>> \o a))
DitherRect ==
  \E p \in Corners, rw \in Ws, a \in {<<>>, <<S("dots")>>, <<S("waves")>>} :
    Exec(mk("dither_rect", ints(<<2, p[1], p[2], rw, CanvasH + 1>>) \o a))
Mirror == \E a \in {<<>>, <<S("y")>>, <<S("z")>>} : Exec(mk("mirror", a))
CopyLayer ==
  \E s \in LayerNames \cup {NoLayer}, d \in LayerNames : Exec(mk("copy_layer", <<S(s), S(d)>>))
Translate == \E dx \in {-1, 0, CanvasW}, dy \in {-1, 0, 1} : Exec(mk("translate", ints(<<dx, dy>>)))
Fill == \E c \in {1, MaxColor}, x \in Xs, y \in Ys : Exec(mk("fill", ints(<<c, x, y>>)))
InsetFill ==
  \E p \in Corners, rh \in Hs, k \in {-1, 0, 1} :
    Exec(mk("inset_fill", ints(<<2, p[1], p[2], CanvasW + 1, rh, k>>)))
ShadeBand ==
  \E n \in LayerNames \cup {NoLayer}, s \in ShadeSides \cup {"RIGHT", "diagonal"},
     a \in {<<>>, <<I(-1)>>, <<I(CanvasW + 1)>>} :
    Exec(mk("shade_band", <<I(2), S(n), S(s)>> \o a))
NoisePoints ==
  \E n \in LayerNames \cup {NoLayer}, k \in {-1, 2}, seed \in {-1, 42} :
    Exec(mk("noise_points", <<I(2), S(n), I(k), I(seed)>>))
Outline ==
  \E c \in Colors, a \in {<<>>, <<I(-1)>>, <<I(CanvasW + 1)>>} : Exec(mk("outline", <<I(c)>> \o a))
\* An op the dispatch does not know, an op with an argument missing, an op
\* with an argument int() rejects.
BadOp ==
  \E o \in {mk("bogus", <<>>), mk("pixel", ints(<<1, 0>>)), mk("clear", <<S("x")>>)} : Exec(o)

\* `return merged()` (line 256), after the loop.
Return ==
  /\ phase = "run"
  /\ rf_status = "ok"
  /\ result' = Returned(merged(Frame, rf_w, rf_h))
  /\ phase' = "returned"
  /\ UNCHANGED <<rf_w, rf_h, rf_ops, rf_pc, rf_op, rf_layers, rf_order, rf_current,
               rf_status, memo, calls>>
  /\ UNCHANGED docVars
  /\ UNCHANGED edVars

Next ==
  \/ Clear \/ LayerBegin \/ LayerEnd \/ LayerMerge \/ Pixel \/ Line \/ Rect \/ RectFill
  \/ ColorReplace \/ MaskLayer \/ OutlineLayer \/ DitherRect \/ Mirror \/ CopyLayer
  \/ Translate \/ Fill \/ InsetFill \/ ShadeBand \/ NoisePoints \/ Outline \/ BadOp
  \/ Return

Spec == Init /\ [][Next]_vars

(***************************************************************************)
(* The interpreter on layer ops only, one op more                          *)
(***************************************************************************)
ExecL(o) == Iterate(o, MaxLayerOps)

LClear == \E c \in {0, 1} : ExecL(mk("clear", ints(<<c>>)))
LLayerBegin == \E n \in LayerNames : ExecL(mk("layer_begin", <<S(n)>>))
LLayerEnd == ExecL(mk("layer_end", <<>>))
LLayerMerge == \E a \in {<<>>, <<S("a")>>, <<S("m")>>} : ExecL(mk("layer_merge", a))
LPixel == \E c \in Colors, x \in {0, CanvasW - 1} : ExecL(mk("pixel", ints(<<c, x, 0>>)))
LCopyLayer ==
  \E p \in {<<"a", "base">>, <<"base", "a">>, <<NoLayer, "a">>} :
    ExecL(mk("copy_layer", <<S(p[1]), S(p[2])>>))

\* The ops that read a named layer as their mask.
LMasked ==
  \E o \in { mk("shade_band", <<I(2), S("base"), S("right")>>),
             mk("shade_band", <<I(2), S("a"), S("edge")>>),
             mk("shade_band", <<I(0), S("base"), S("top_left")>>),
             mk("noise_points", <<I(2), S("base"), I(2), I(42)>>),
             mk("noise_points", <<I(2), S(NoLayer), I(2), I(42)>>) } : ExecL(o)

\* The outline of the merged view, drawn into the current layer.
LOutline ==
  \E c \in {0, 1}, a \in {<<>>, <<I(-1)>>, <<I(CanvasW + 1)>>} :
    ExecL(mk("outline", <<I(c)>> \o a))

NextLayers ==
  \/ LClear \/ LLayerBegin \/ LLayerEnd \/ LLayerMerge \/ LPixel \/ LCopyLayer \/ LMasked
  \/ LOutline \/ Return

SpecLayers == Init /\ [][NextLayers]_vars

(***************************************************************************)
(* The interpreter on the draw ops, with the ops that move the current     *)
(* layer                                                                   *)
(***************************************************************************)
ExecD(o) == Iterate(o, MaxDrawOps)

DLayerBegin == \E n \in LayerNames : ExecD(mk("layer_begin", <<S(n)>>))
DLayerEnd == ExecD(mk("layer_end", <<>>))
DLayerMerge == ExecD(mk("layer_merge", <<S("m")>>))
DClear == ExecD(mk("clear", ints(<<1>>)))
DPixel == ExecD(mk("pixel", ints(<<1, 0, 0>>)))
DLine == ExecD(mk("line", ints(<<1, 0, 0, CanvasW - 1, CanvasH - 1>>)))
DThickLine ==
  \E t \in {1, 2} : ExecD(mk("thick_line", ints(<<1, 0, 0, CanvasW - 1, 0, t>>)))
DCapsuleFill == ExecD(mk("capsule_fill", ints(<<1, 0, CanvasH - 1, CanvasW, CanvasH - 1, 1>>)))
DRect ==
  \E n \in {"rect", "rect_stroke"} : ExecD(mk(n, ints(<<2, 0, 0, CanvasW, CanvasH>>)))
DRectFill == ExecD(mk("rect_fill", ints(<<2, CanvasW - 1, 0, 1, CanvasH>>)))
DEllipseFill ==
  \E r \in {0, 1} : ExecD(mk("ellipse_fill", ints(<<1, CanvasW - 1, 0, r, r>>)))
DEllipseStroke == ExecD(mk("ellipse_stroke", ints(<<2, 0, 0, 1, 1>>)))
DCircleFill == ExecD(mk("circle_fill", ints(<<1, 0, CanvasH - 1, 1>>)))
DBezier == ExecD(mk("bezier", ints(<<2, 0, 0, CanvasW - 1, 0, CanvasW - 1, CanvasH - 1>>)))
\* A triangle, and the same op with the last coordinate missing.
DPolyFill ==
  \E a \in {<<0, 0, CanvasW, 0, 0, CanvasH>>, <<0, 0, CanvasW, 0, 0>>} :
    ExecD(mk("poly_fill", ints(<<1>> \o a)))
DDitherRect == ExecD(mk("dither_rect", ints(<<2, 0, 0, CanvasW, CanvasH>>)))
DFill == ExecD(mk("fill", ints(<<2, 0, 0>>)))
DGradientLinear ==
  ExecD(mk("gradient_linear", <<S("1,2")>> \o ints(<<0, 0, CanvasW - 1, 0>>)))
DGradientRadial == ExecD(mk("gradient_radial", <<S("1,2")>> \o ints(<<0, 0, 1>>)))

NextDraw ==
  \/ DLayerBegin \/ DLayerEnd \/ DLayerMerge \/ DClear \/ DPixel \/ DLine \/ DThickLine
  \/ DCapsuleFill \/ DRect \/ DRectFill \/ DEllipseFill \/ DEllipseStroke \/ DCircleFill
  \/ DBezier \/ DPolyFill \/ DDitherRect \/ DFill \/ DGradientLinear \/ DGradientRadial
  \/ Return

SpecDraw == Init /\ [][NextDraw]_vars

(***************************************************************************)
(* The editor: painting, then duplicating the frame                        *)
(***************************************************************************)
\* PixelCanvas.__init__, and the frame list holding no ops yet; the
\* interpreter is idle until the editor calls it.  undo_stack and
\* redo_stack are left out: only undo and redo read them.
InitEditor ==
  /\ rf_w = EditW
  /\ rf_h = EditH
  /\ rf_ops = <<>>
  /\ rf_pc = 0
  /\ rf_op = NoOp
  /\ rf_layers = InitFrame(rf_w, rf_h).layers
  /\ rf_order = InitFrame(rf_w, rf_h).order
  /\ rf_current = InitFrame(rf_w, rf_h).current
  /\ rf_status = InitFrame(rf_w, rf_h).status
  /\ result = NoResult
  /\ memo = NoMemo
  /\ calls = 0
  /\ phase = "editing"
  /\ docIdle
  /\ canvas_width = EditW
  /\ canvas_height = EditH
  /\ buffer = Zeros(EditW * EditH)
  /\ cursor_x = 0
  /\ cursor_y = 0
  /\ frame_ops = <<>>

editorIdle ==
  /\ UNCHANGED <<rf_w, rf_h, rf_ops, rf_pc, rf_op, rf_layers, rf_order, rf_current,
                 rf_status, result, memo, calls>>
  /\ UNCHANGED docVars
  /\ UNCHANGED <<canvas_width, canvas_height>>

\* watch_cursor_x and watch_cursor_y: a cursor coordinate is clamped to the
\* canvas whenever it is assigned.
watch_cursor_x(value) == Max(0, Min(value, canvas_width - 1))
watch_cursor_y(value) == Max(0, Min(value, canvas_height - 1))

action_cursor_up ==
  /\ phase = "editing"
  /\ cursor_y' = watch_cursor_y(cursor_y - 1)
  /\ UNCHANGED <<cursor_x, buffer, frame_ops, phase>>
  /\ editorIdle

action_cursor_down ==
  /\ phase = "editing"
  /\ cursor_y' = watch_cursor_y(cursor_y + 1)
  /\ UNCHANGED <<cursor_x, buffer, frame_ops, phase>>
  /\ editorIdle

action_cursor_left ==
  /\ phase = "editing"
  /\ cursor_x' = watch_cursor_x(cursor_x - 1)
  /\ UNCHANGED <<cursor_y, buffer, frame_ops, phase>>
  /\ editorIdle

action_cursor_right ==
  /\ phase = "editing"
  /\ cursor_x' = watch_cursor_x(cursor_x + 1)
  /\ UNCHANGED <<cursor_y, buffer, frame_ops, phase>>
  /\ editorIdle

\* action_paint: current_color is the palette entry selected, and paint()
\* puts it at the cursor.
action_paint ==
  \E current_color \in Colors :
    /\ phase = "editing"
    /\ buffer' = [buffer EXCEPT ![cursor_y * canvas_width + cursor_x + 1] = current_color]
    /\ UNCHANGED <<cursor_x, cursor_y, frame_ops, phase>>
    /\ editorIdle

\* action_erase.
action_erase ==
  /\ phase = "editing"
  /\ buffer' = [buffer EXCEPT ![cursor_y * canvas_width + cursor_x + 1] = 0]
  /\ UNCHANGED <<cursor_x, cursor_y, frame_ops, phase>>
  /\ editorIdle

\* action_duplicate_frame: save_frame() stores to_ops() as the ops of the
\* frame, and load_frame() loads the copy of them with load_from_ops.
action_duplicate_frame ==
  /\ phase = "editing"
  /\ frame_ops' = to_ops(buffer, canvas_width, canvas_height)
  /\ LET loaded == load_from_ops(frame_ops', canvas_width, canvas_height)
     IN /\ buffer' = IF loaded.raised THEN buffer ELSE loaded.list
        /\ phase' = IF loaded.raised THEN "failed" ELSE "duplicated"
  /\ UNCHANGED <<cursor_x, cursor_y>>
  /\ editorIdle

NextEditor ==
  \/ action_cursor_up
  \/ action_cursor_down
  \/ action_cursor_left
  \/ action_cursor_right
  \/ action_paint
  \/ action_erase
  \/ action_duplicate_frame

SpecEditor == InitEditor /\ [][NextEditor]_vars

(***************************************************************************)
(* The interpreter on gradients, over canvases of several sizes            *)
(***************************************************************************)
\* render_frame is entered with a canvas of some size.
InitGradient ==
  /\ rf_w \in 1..GradW
  /\ rf_h \in 1..GradH
  /\ rf_ops = <<>>
  /\ rf_pc = 0
  /\ rf_op = NoOp
  /\ rf_layers = InitFrame(rf_w, rf_h).layers
  /\ rf_order = InitFrame(rf_w, rf_h).order
  /\ rf_current = InitFrame(rf_w, rf_h).current
  /\ rf_status = InitFrame(rf_w, rf_h).status
  /\ result = NoResult
  /\ memo = NoMemo
  /\ calls = 1
  /\ phase = "run"
  /\ docIdle
  /\ edIdle

\* The index argument as a string of integers, a single integer, a JSON
\* array and a string that holds no integer.
GradientIndexArgs == {S("1,2"), S("2,1,0"), I(2), Op(ints(<<1, 2>>)), S("x")}

GradientLinear ==
  \E a \in GradientIndexArgs, p \in {<<0, 0>>, <<GradW - 1, 0>>, <<0, 1>>},
     q \in {<<x, 0>> : x \in 0..(GradW - 1)} \cup {<<1, 1>>} :
    Iterate(mk("gradient_linear", <<a>> \o ints(<<p[1], p[2], q[1], q[2]>>)), MaxGradOps)

NextGradient == GradientLinear \/ Return

SpecGradient == InitGradient /\ [][NextGradient]_vars

(***************************************************************************)
(* Calls of render_frame, one after another                                *)
(***************************************************************************)
\* The ops the callers pass: drawing, a layer, an op that needs that layer,
\* the seeded noise, and an op the dispatch rejects.
CallOps ==
  { mk("pixel", ints(<<2, 0, 0>>)),
    mk("layer_begin", <<S("a")>>),
    mk("shade_band", <<I(1), S("a"), S("right")>>),
    mk("noise_points", <<I(1), S("base"), I(2), I(42)>>),
    mk("bogus", <<>>) }

RECURSIVE SeqsUpTo(_, _)
SeqsUpTo(s, n) ==
  IF n = 0 THEN {<<>>} ELSE {<<>>} \cup {<<x>> \o q : x \in s, q \in SeqsUpTo(s, n - 1)}

Programs == SeqsUpTo(CallOps, MaxCallOps)

InitCalls ==
  /\ rf_w = CanvasW
  /\ rf_h = CanvasH
  /\ rf_ops = <<>>
  /\ rf_pc = 0
  /\ rf_op = NoOp
  /\ rf_layers = ("base" :> Zeros(CanvasW * CanvasH))
  /\ rf_order = <<"base">>
  /\ rf_current = "base"
  /\ rf_status = "ok"
  /\ result = NoResult
  /\ memo = NoMemo
  /\ calls = 0
  /\ phase = "idle"
  /\ docIdle
  /\ edIdle

\* A caller enters render_frame(ops, w, h) (lines 28-30).
Call ==
  /\ phase \in {"idle", "returned", "raised"}
  /\ calls < MaxCalls
  /\ \E ops \in Programs : rf_ops' = ops
  /\ rf_pc' = 0
  /\ rf_op' = NoOp
  /\ SetFrame(InitFrame(rf_w, rf_h))
  /\ calls' = calls + 1
  /\ phase' = "run"
  /\ UNCHANGED <<rf_w, rf_h, result, memo>>
  /\ UNCHANGED docVars
  /\ UNCHANGED edVars

\* One iteration of `for op in ops`.
CallStep ==
  /\ phase = "run"
  /\ rf_status = "ok"
  /\ rf_pc < Len(rf_ops)
  /\ SetFrame(exec_op(Frame, rf_ops[rf_pc + 1], rf_w, rf_h))
  /\ rf_op' = rf_ops[rf_pc + 1]
  /\ rf_pc' = rf_pc + 1
  /\ UNCHANGED <<rf_w, rf_h, rf_ops, result, memo, calls, phase>>
  /\ UNCHANGED docVars
  /\ UNCHANGED edVars

\* The caller may keep what the call gave, with the ops it passed.
Keep(res) ==
  \E keep \in BOOLEAN :
    memo' = IF keep /\ ~memo.set
              THEN [set |-> TRUE, at |-> calls, ops |-> rf_ops, res |-> res]
              ELSE memo

\* `return merged()` once the loop is through.
CallReturn ==
  /\ phase = "run"
  /\ rf_status = "ok"
  /\ rf_pc = Len(rf_ops)
  /\ result' = Returned(merged(Frame, rf_w, rf_h))
  /\ Keep(result')
  /\ phase' = "returned"
  /\ UNCHANGED <<rf_w, rf_h, rf_ops, rf_pc, rf_op, rf_layers, rf_order, rf_current,
               rf_status, calls>>
  /\ UNCHANGED docVars
  /\ UNCHANGED edVars

\* The exception of an op leaves render_frame.
CallRaise ==
  /\ phase = "run"
  /\ rf_status # "ok"
  /\ result' = Raises
  /\ Keep(result')
  /\ phase' = "raised"
  /\ UNCHANGED <<rf_w, rf_h, rf_ops, rf_pc, rf_op, rf_layers, rf_order, rf_current,
               rf_status, calls>>
  /\ UNCHANGED docVars
  /\ UNCHANGED edVars

NextCalls == Call \/ CallStep \/ CallReturn \/ CallRaise

SpecCalls == InitCalls /\ [][NextCalls]_vars

PureStep ==
  /\ (phase # "run" /\ phase' = "run") =>
       /\ rf_layers' = ("base" :> Zeros(rf_w * rf_h))
       /\ rf_order' = <<"base">>
       /\ rf_current' = "base"
  /\ phase = "run" => rf_ops' = rf_ops
  /\ (phase = "run" /\ phase' # "run" /\ memo'.set /\ memo'.ops = rf_ops') =>
       result' = memo'.res

\* C2: every call of render_frame starts from the single all-zero layer
\* base, whatever calls came before; a running call never changes its ops;
\* and a call that ends gives what an earlier call with the same ops gave.
C2_DeterminismPurity == [][PureStep]_vars

\* The third call returned; the first call had the same two ops, ending in
\* the seeded noise_points, and what it returned was kept.
C2_Witness ==
  /\ phase = "returned"
  /\ calls = 3
  /\ memo.set
  /\ memo.at = 1
  /\ memo.ops = rf_ops
  /\ rf_ops = <<mk("pixel", ints(<<2, 0, 0>>)), mk("noise_points", <<I(1), S("base"), I(2), I(42)>>)>>
  /\ result.list[1] = 1

(***************************************************************************)
(* Documents                                                               *)
(***************************************************************************)
\* JSON null.
Null == [t |-> "null", i |-> 0, s |-> ""]

\* A frame of a document: its JSON type, the keys it holds among base, ops,
\* overrides and append_ops, and their values.
FrameOf(keys, base, ops, overrides, append_ops) ==
  [t |-> "dict", keys |-> keys, base |-> base, ops |-> ops, overrides |-> overrides,
   append_ops |-> append_ops]
ConcreteFrame(ops) == FrameOf({"ops"}, Null, Op(ops), <<>>, <<>>)
\* A frame that is a number, a frame that is an empty list.
ScalarFrame(type) ==
  [t |-> type, keys |-> {}, base |-> Null, ops |-> Op(<<>>), overrides |-> <<>>,
   append_ops |-> <<>>]
Override(op_index, op) == [op_index |-> op_index, op |-> op]

PaletteColor(k) == IF k = 1 THEN "#000" ELSE IF k = 2 THEN "#111" ELSE IF k = 3 THEN "#222" ELSE "#333"
GoodCanvas == [t |-> "dict", has |-> {"w", "h"}, w |-> I(CanvasW), h |-> I(CanvasH)]
GoodPalette == [t |-> "list", items |-> [k \in 1..(MaxColor + 1) |-> S(PaletteColor(k))]]
NoAnimations == [t |-> "absent", entries |-> <<>>]
FrameList(items) == [t |-> "list", items |-> items]

Document(format, canvas, palette, frames, animations) ==
  [format |-> format, canvas |-> canvas, palette |-> palette, frames |-> frames,
   animations |-> animations]
\* A document that is well-formed outside its frames.
DocOf(frames) == Document("spriteops", GoodCanvas, GoodPalette, FrameList(frames), NoAnimations)

P1 == mk("pixel", ints(<<1, 0, 0>>))
P2 == mk("pixel", ints(<<2, CanvasW - 1, 0>>))
Q1 == mk("pixel", ints(<<1, 0, CanvasH - 1>>))
Q2 == mk("clear", ints(<<2>>))
Bogus == mk("bogus", <<>>)

\* Documents whose top-level entries have every JSON type.
Canvases ==
  { GoodCanvas,
    [t |-> "absent", has |-> {}, w |-> I(0), h |-> I(0)],
    [t |-> "int", has |-> {}, w |-> I(0), h |-> I(0)],
    [t |-> "list", has |-> {"w", "h"}, w |-> I(0), h |-> I(0)],
    [t |-> "dict", has |-> {"w"}, w |-> I(CanvasW), h |-> I(0)],
    [t |-> "dict", has |-> {"w", "h"}, w |-> S("2"), h |-> I(CanvasH)],
    [t |-> "dict", has |-> {"w", "h"}, w |-> I(0), h |-> I(CanvasH)] }
Palettes ==
  { GoodPalette,
    [t |-> "absent", items |-> <<>>],
    [t |-> "int", items |-> <<>>],
    [t |-> "str", items |-> <<S("#"), S("a"), S("b")>>],
    [t |-> "list", items |-> <<>>],
    [t |-> "list", items |-> <<I(1), S("#111")>>],
    [t |-> "list", items |-> <<S("#000"), S("222")>>] }
FrameLists ==
  { FrameList(<<ConcreteFrame(<<P1>>)>>),
    [t |-> "absent", items |-> <<>>],
    [t |-> "int", items |-> <<>>],
    FrameList(<<>>),
    FrameList(<<ScalarFrame("int")>>),
    FrameList(<<ScalarFrame("list")>>),
    FrameList(<<ConcreteFrame(<<NotAList, Bogus>>), ConcreteFrame(<<P1>>)>>),
    FrameList(<<FrameOf({"ops"}, Null, NotAList, <<>>, <<>>), ConcreteFrame(<<Bogus>>)>>) }
AnimEntry(type, has_frames, frames) == [t |-> type, has_frames |-> has_frames, frames |-> frames]
AnimationsSet ==
  { NoAnimations,
    [t |-> "list", entries |-> <<>>],
    [t |-> "dict", entries |-> <<AnimEntry("int", FALSE, <<>>)>>],
    [t |-> "dict", entries |-> <<AnimEntry("dict", TRUE, <<I(0), I(5)>>)>>],
    [t |-> "dict", entries |-> <<AnimEntry("dict", FALSE, <<>>), AnimEntry("dict", TRUE, <<I(0)>>)>>] }
TypeDocs ==
  { Document(f, c, p, fr, a) :
      f \in {"spriteops", "x"}, c \in Canvases, p \in Palettes, fr \in FrameLists,
      a \in AnimationsSet }

\* Documents of one concrete frame, over ops the validator has to judge.
FrameOps ==
  { P1,
    mk("pixel", ints(<<1, 0>>)),
    mk("clear", <<S("x")>>),
    mk("clear", ints(<<MaxColor + 1>>)),
    mk("layer_begin", <<S("a")>>),
    mk("layer_merge", <<>>),
    mk("layer_merge", <<S("m")>>),
    mk("mask_layer", <<S("a")>>),
    mk("mask_layer", <<S(NoLayer)>>),
    mk("shade_band", <<I(1), S("a"), S("right")>>),
    mk("shade_band", <<I(1), S("base"), S("right")>>),
    mk("shade_band", <<I(1), S("base"), S("diagonal")>>),
    mk("noise_points", <<I(1), S("base"), I(2)>>),
    mk("noise_points", <<I(1), S(NoLayer), I(2), I(42)>>),
    mk("color_replace", <<I(1), I(2), S("a")>>),
    mk("color_replace", <<I(1), I(2), S(NoLayer)>>),
    Bogus,
    NotAList,
    Op(<<>>),
    Op(<<I(1)>>) }
OpDocs == {DocOf(<<ConcreteFrame(ops)>>) : ops \in SeqsUpTo(FrameOps, MaxFrameOps)}

\* Documents with derived frames.
Bases == {I(-1), I(0), I(1), S("0")}
OpIndexes == {I(-3), I(-1), I(0), I(1), I(2), Null}
OverrideLists ==
  {<<Override(i, Q1)>> : i \in OpIndexes}
  \cup {<<Override(i, Q1), Override(j, Q2)>> : i \in OpIndexes, j \in OpIndexes}
AppendLists == {<<Q2>>, <<Bogus>>}
DerivedFrames ==
  {FrameOf({"base"}, b, Op(<<>>), <<>>, <<>>) : b \in Bases}
  \cup {FrameOf({"base", "ops"}, b, Op(<<Q1>>), <<>>, <<>>) : b \in Bases}
  \cup {FrameOf({"base", "ops", "append_ops"}, b, Op(<<Q1>>), <<>>, a) : b \in Bases, a \in AppendLists}
  \cup {FrameOf({"base", "append_ops"}, b, Op(<<>>), <<>>, a) : b \in Bases, a \in AppendLists}
  \cup {FrameOf({"base", "overrides"}, b, Op(<<>>), o, <<>>) : b \in Bases, o \in OverrideLists}
  \cup {FrameOf({"base", "overrides", "append_ops"}, b, Op(<<>>), o, <<Q2>>) :
          b \in {I(0)}, o \in OverrideLists}
FirstFrames == {ConcreteFrame(<<P1>>), ConcreteFrame(<<P1, P2>>)}
\* A third frame derived from the second, which is itself derived.
ThirdFrames ==
  { FrameOf({"base", "append_ops"}, I(1), Op(<<>>), <<>>, <<P2>>),
    FrameOf({"base", "overrides"}, I(1), Op(<<>>), <<Override(I(1), P2)>>, <<>>) }
DerivedDocs ==
  {DocOf(<<f, d>>) : f \in FirstFrames, d \in DerivedFrames}
  \cup {DocOf(<<f, d, e>>) : f \in FirstFrames, d \in DerivedFrames, e \in ThirdFrames}
  \cup {DocOf(<<d>>) : d \in {x \in DerivedFrames : x.keys \in {{"base", "append_ops"}, {"base"}}}}

\* Documents of three frames, one of which names a base beyond the document.
BadBase == FrameOf({"base", "append_ops"}, I(5), Op(<<>>), <<>>, <<Q2>>)
BadBaseDocs ==
  { DocOf(<<BadBase, ConcreteFrame(<<P1>>), ConcreteFrame(<<P2>>)>>),
    DocOf(<<ConcreteFrame(<<P1>>), BadBase, ConcreteFrame(<<P2>>)>>),
    DocOf(<<ConcreteFrame(<<P1>>), ConcreteFrame(<<P2>>), BadBase>>),
    DocOf(<<ConcreteFrame(<<P1>>), BadBase, BadBase>>) }

\* Documents with a derived frame that overrides and appends nothing.
Same(keys, base) == FrameOf(keys, I(base), Op(<<>>), <<>>, <<>>)
IdentityDocs ==
  { DocOf(<<ConcreteFrame(<<P1, P2>>), Same({"base", "append_ops"}, 0)>>),
    DocOf(<<ConcreteFrame(<<P1, P2>>), Same({"base", "overrides"}, 0)>>),
    DocOf(<<ConcreteFrame(<<P1>>), FrameOf({"base", "append_ops"}, I(0), Op(<<>>), <<>>, <<Q2>>),
            Same({"base", "append_ops"}, 1)>>),
    DocOf(<<ConcreteFrame(<<P1>>),
            FrameOf({"base", "overrides"}, I(0), Op(<<>>), <<Override(I(0), P2)>>, <<>>),
            Same({"base", "overrides", "append_ops"}, 1)>>),
    DocOf(<<ConcreteFrame(<<Bogus>>), Same({"base", "append_ops"}, 0)>>) }

\* Documents whose ops name palette indices where the validator does not
\* look for them: in the index string of a gradient, and in ops that an
\* override or append_ops brings in.
Beyond == MaxColor + 7
GradientOps ==
  { mk("gradient_linear", <<S(s)>> \o ints(<<0, 0, CanvasW - 1, 0>>)) : s \in {"1,2", "1,9"} }
  \cup { mk("gradient_radial", <<S(s)>> \o ints(<<0, 0, 1>>)) : s \in {"1,2", "1,9"} }
PaletteDocs ==
  { DocOf(<<ConcreteFrame(<<g>>)>>) : g \in GradientOps }
  \cup { DocOf(<<ConcreteFrame(<<P1>>),
                 FrameOf({"base", "append_ops"}, I(0), Op(<<>>), <<>>, <<o>>)>>) :
            o \in {mk("clear", ints(<<Beyond>>)), mk("pixel", ints(<<Beyond, 0, 0>>))} }
  \cup { DocOf(<<ConcreteFrame(<<P1>>),
                 FrameOf({"base", "overrides"}, I(0), Op(<<>>),
                         <<Override(I(0), mk("pixel", ints(<<c, 0, 0>>)))>>, <<>>)>>) :
            c \in {MaxColor, Beyond} }

Docs ==
  TypeDocs \cup OpDocs \cup DerivedDocs \cup BadBaseDocs \cup IdentityDocs \cup PaletteDocs

(***************************************************************************)
(* cli.py render: validate, then resolve and render frame by frame         *)
(***************************************************************************)
InitDoc ==
  /\ rf_w = CanvasW
  /\ rf_h = CanvasH
  /\ rf_ops = <<>>
  /\ rf_pc = 0
  /\ rf_op = NoOp
  /\ rf_layers = ("base" :> Zeros(CanvasW * CanvasH))
  /\ rf_order = <<"base">>
  /\ rf_current = "base"
  /\ rf_status = "ok"
  /\ result = NoResult
  /\ memo = NoMemo
  /\ calls = 0
  /\ phase = "loaded"
  /\ doc \in Docs
  /\ strict_flag \in BOOLEAN
  /\ errors = NoResult
  /\ processed = NoResult
  /\ rendered = <<>>
  /\ edIdle

renderIdle == UNCHANGED <<rf_w, rf_h, rf_ops, rf_pc, rf_op, rf_layers, rf_order, rf_current,
                          rf_status, result, memo, calls>>

\* validate_file: errors = validate_sprite(data, path, strict).
Validate ==
  /\ phase = "loaded"
  /\ errors' = validate_sprite(doc, strict_flag)
  /\ phase' = IF errors'.raised THEN "crashed" ELSE "validated"
  /\ UNCHANGED <<doc, strict_flag, processed, rendered>>
  /\ renderIdle
  /\ UNCHANGED edVars

\* render_sprite on a document with no diagnostics, up to
\* process_frame_inheritance(raw_frames).
Resolve ==
  /\ phase = "validated"
  /\ errors.list = <<>>
  /\ processed' = process_frame_inheritance(doc.frames.items)
  /\ phase' = IF processed'.raised THEN "failed" ELSE "resolved"
  /\ UNCHANGED <<doc, strict_flag, errors, rendered>>
  /\ renderIdle
  /\ UNCHANGED edVars

\* One iteration of `for i, ops in enumerate(processed_ops)` of
\* render_sprite: buf = render_frame(ops, w, h).
RenderNext ==
  /\ phase = "resolved"
  /\ Len(rendered) < Len(processed.list)
  /\ LET st == render_frame(processed.list[Len(rendered) + 1], py_int(doc.canvas.w),
                            py_int(doc.canvas.h))
     IN /\ rendered' = Append(rendered,
                              [status |-> st.status,
                               buf |-> IF st.status = "ok"
                                         THEN merged(st, py_int(doc.canvas.w), py_int(doc.canvas.h))
                                         ELSE <<>>])
        /\ phase' = IF st.status = "ok" THEN "resolved" ELSE "failed"
  /\ UNCHANGED <<doc, strict_flag, errors, processed>>
  /\ renderIdle
  /\ UNCHANGED edVars

\* Every frame is rendered.
Finish ==
  /\ phase = "resolved"
  /\ Len(rendered) = Len(processed.list)
  /\ phase' = "done"
  /\ UNCHANGED <<doc, strict_flag, errors, processed, rendered>>
  /\ renderIdle
  /\ UNCHANGED edVars

NextDoc == Validate \/ Resolve \/ RenderNext \/ Finish

SpecDoc == InitDoc /\ [][NextDoc]_vars

(***************************************************************************)
(* Bounds safety                                                           *)
(***************************************************************************)
\* The name of a well-formed op, "" otherwise.
NameOf(op) ==
  IF op.t = "list" /\ oplen(op) > 0 /\ arg(op, 0).t = "str" THEN arg(op, 0).s ELSE ""

Box(xa, xb, ya, yb) == (xa..xb) \X (ya..yb)

\* The coordinates a coordinate-taking op is meant to draw at.
Footprint(op) ==
  LET name == NameOf(op)
  IN CASE name = "pixel" -> {<<ai(op, 2), ai(op, 3)>>}
       [] name = "line" ->
            Box(Min(ai(op, 2), ai(op, 4)), Max(ai(op, 2), ai(op, 4)),
                Min(ai(op, 3), ai(op, 5)), Max(ai(op, 3), ai(op, 5)))
       [] name \in {"rect", "rect_stroke"} ->
            \* the two horizontal edges over the width, the two vertical
            \* edges over the height
            {<<ai(op, 2) + i, yy>> : i \in 0..(ai(op, 4) - 1),
                                     yy \in {ai(op, 3), ai(op, 3) + ai(op, 5) - 1}}
            \cup {<<xx, ai(op, 3) + j>> : j \in 0..(ai(op, 5) - 1),
                                          xx \in {ai(op, 2), ai(op, 2) + ai(op, 4) - 1}}
       [] name \in {"rect_fill", "dither_rect"} ->
            Box(ai(op, 2), ai(op, 2) + ai(op, 4) - 1, ai(op, 3), ai(op, 3) + ai(op, 5) - 1)
       [] name = "inset_fill" ->
            Box(ai(op, 2) + ai(op, 6), ai(op, 2) + ai(op, 4) - ai(op, 6) - 1,
                ai(op, 3) + ai(op, 6), ai(op, 3) + ai(op, 5) - ai(op, 6) - 1)
       [] OTHER -> (0..(rf_w - 1)) \X (0..(rf_h - 1))

\* The value of pixel p of layer k before the op ran: a layer the op created
\* started as zeros.
Before(k, p) == IF k \in DOMAIN rf_layers THEN rf_layers[k][p] ELSE 0

BoundsSafeStep ==
  rf_pc' = rf_pc + 1 =>
    /\ rf_status' # "index_error"
    /\ \A k \in DOMAIN rf_layers' : Len(rf_layers'[k]) = rf_w * rf_h
    /\ rf_status' = "ok" =>
         \A k \in DOMAIN rf_layers' : \A p \in 1..(rf_w * rf_h) :
           rf_layers'[k][p] # Before(k, p) =>
             <<(p - 1) % rf_w, (p - 1) \div rf_w>> \in Footprint(rf_op')

NonZeroAt(p) ==
  {i \in 1..Len(rf_order) : rf_order[i] \in DOMAIN rf_layers /\ rf_layers[rf_order[i]][p] # 0}

SetMax(s) == CHOOSE m \in s : \A n \in s : n <= m

\* C4: at every pixel merge_layers returns the value of the last layer in
\* insertion order that is non-zero there, and 0 when no layer is; merging
\* a single layer returns that layer.
C4_MergedView ==
  LET m == merge_layers(rf_layers, rf_order, rf_w, rf_h)
  IN /\ Len(m) = rf_w * rf_h
     /\ \A p \in 1..(rf_w * rf_h) :
          m[p] = IF NonZeroAt(p) = {} THEN 0 ELSE rf_layers[rf_order[SetMax(NonZeroAt(p))]][p]
     /\ (Len(rf_order) = 1 /\ DOMAIN rf_layers = {rf_order[1]}) => m = rf_layers[rf_order[1]]
     /\ phase = "returned" => result.list = m

\* Layer base is all 1, layer a above it has a 2 at pixel 0 and is
\* transparent at pixel 1: the call returned 2 at pixel 0 and 1 at pixel 1.
C4_Witness ==
  /\ phase = "returned"
  /\ rf_order = <<"base", "a">>
  /\ rf_layers["base"] = Filled(1, CanvasW * CanvasH)
  /\ rf_layers["a"][1] = 2
  /\ rf_layers["a"][2] = 0
  /\ result.list[1] = 2
  /\ result.list[2] = 1

(***************************************************************************)
(* The validator and the resolver against what is said of them             *)
(***************************************************************************)
Frames == doc.frames.items
\* validate_sprite returned, and returned no diagnostic.
Accepted == phase \notin {"loaded", "crashed"} /\ ~errors.raised /\ errors.list = <<>>
\* process_frame_inheritance was called.
Resolved == phase \in {"resolved", "failed", "done"}
Messages == {errors.list[k].message : k \in 1..Len(errors.list)}

\* C1: a document the validator accepts resolves without an exception, and
\* every frame of it renders without one.
C1_ValidatorCompleteness ==
  Accepted =>
    /\ ~processed.raised
    /\ \A k \in 1..Len(rendered) : rendered[k].status = "ok"

\* Whether every frame with a base has the index of an earlier frame there.
BasesEarlier ==
  \A i \in 1..Len(Frames) :
    "base" \in Frames[i].keys =>
      Frames[i].base.t = "int" /\ 0 <= Frames[i].base.i /\ Frames[i].base.i < i - 1

\* Whether op_index is a position of a list of n ops.
ValidPosition(op_index, n) == op_index.t = "int" /\ 0 <= op_index.i /\ op_index.i < n

\* ops with the overrides from k on applied in order, those at a valid
\* position only.
RECURSIVE OverridesApplied(_, _, _)
OverridesApplied(ops, overrides, k) ==
  IF k > Len(overrides)
    THEN ops
    ELSE OverridesApplied(IF ValidPosition(overrides[k].op_index, Len(ops))
                            THEN [ops EXCEPT ![overrides[k].op_index.i + 1] = overrides[k].op]
                            ELSE ops,
                          overrides, k + 1)

\* The op list frame i (from 1) of frames stands for.
RECURSIVE ResolvedOps(_, _)
ResolvedOps(frames, i) ==
  LET fr == frames[i]
  IN IF "base" \notin fr.keys
       THEN fr.ops.l
       ELSE OverridesApplied(ResolvedOps(frames, fr.base.i + 1),
                             IF "overrides" \in fr.keys THEN fr.overrides ELSE <<>>, 1)
            \o (IF "append_ops" \in fr.keys THEN fr.append_ops ELSE <<>>)

\* C5: with every base an earlier frame, process_frame_inheritance returns
\* one op list per frame: the ops of a concrete frame; for a derived frame
\* the resolved ops of its base with the overrides at valid positions
\* applied in order, then append_ops, so as many ops as the base has plus
\* the appended ones.
C5_InheritanceResolution ==
  (Resolved /\ BasesEarlier) =>
    /\ ~processed.raised
    /\ Len(processed.list) = Len(Frames)
    /\ \A i \in 1..Len(Frames) :
         /\ processed.list[i] = ResolvedOps(Frames, i)
         /\ "base" \in Frames[i].keys =>
              Len(processed.list[i]) =
                Len(processed.list[Frames[i].base.i + 1])
                + (IF "append_ops" \in Frames[i].keys THEN Len(Frames[i].append_ops) ELSE 0)

\* The overrides from k on that are at a position of a list of n ops, or
\* have no op_index.
RECURSIVE InRange(_, _, _)
InRange(overrides, k, n) ==
  IF k > Len(overrides)
    THEN <<>>
    ELSE (IF overrides[k].op_index.t # "int" \/ ValidPosition(overrides[k].op_index, n)
            THEN <<overrides[k]>> ELSE <<>>)
         \o InRange(overrides, k + 1, n)
InRangeOnly(fr, n) == [fr EXCEPT !.overrides = InRange(fr.overrides, 1, n)]

\* The frames without the overrides that are out of range.
WithoutOutOfRange ==
  [i \in 1..Len(Frames) |->
     IF "base" \in Frames[i].keys
       THEN InRangeOnly(Frames[i], Len(ResolvedOps(Frames, Frames[i].base.i + 1)))
       ELSE Frames[i]]

\* C6: an override whose op_index is below 0 or not below the length of the
\* resolved base raises nothing and changes nothing: the frames resolve to
\* what they resolve to without it.
C6_OutOfRangeIgnored ==
  (Resolved /\ BasesEarlier) =>
    /\ ~processed.raised
    /\ processed = process_frame_inheritance(WithoutOutOfRange)

\* C7: in a document the validator accepts, every base is the index of an
\* earlier frame, frame 0 has none, and one forward pass resolves the frames.
C7_EarlierBase ==
  /\ Accepted => BasesEarlier
  /\ (Accepted /\ Resolved) => ~processed.raised

\* Whether the validator reported something for frame i (from 1).
Diagnosed(i) == \E k \in 1..Len(errors.list) : errors.list[k].frame = i - 1

\* C8: the validator reports a diagnostic for every frame that has base and
\* ops, and for every frame that has base and neither overrides nor
\* append_ops.
C8_DerivedShape ==
  phase = "validated" =>
    \A i \in 1..Len(Frames) :
      ( /\ Frames[i].t = "dict"
        /\ "base" \in Frames[i].keys
        /\ \/ "ops" \in Frames[i].keys
           \/ ("overrides" \notin Frames[i].keys /\ "append_ops" \notin Frames[i].keys) )
      => Diagnosed(i)

\* C9: validate_sprite returns a list whatever the JSON types in the
\* document are, and a bad format does not keep it from reporting an unknown
\* op of a frame or a bad frame index of an animation in the same list.
C9_NeverThrowsAccumulates ==
  phase # "loaded" =>
    /\ ~errors.raised
    /\ doc.format # "spriteops" => "format" \in Messages
    /\ (doc.frames.t = "list" /\ \E i \in 1..Len(Frames) :
          Frames[i].t = "dict" /\ Frames[i].keys = {"ops"} /\ Frames[i].ops.t = "list"
          /\ \E k \in 1..Len(Frames[i].ops.l) : Frames[i].ops.l[k] = Bogus)
       => "op_unknown" \in Messages
    /\ (doc.animations.t = "dict" /\ \E k \in 1..Len(doc.animations.entries) :
          doc.animations.entries[k].t = "dict" /\ doc.animations.entries[k].has_frames
          /\ \E j \in 1..Len(doc.animations.entries[k].frames) :
               doc.animations.entries[k].frames[j].i >= Len(Frames))
       => "anim_index" \in Messages

\* The argument positions the op table types as layer_name.
LayerNamePositions(name) ==
  IF name \in DOMAIN OP_SPECS
    THEN {i \in 0..(Len(OP_SPECS[name].arg_types) - 1) :
            OP_SPECS[name].arg_types[i + 1] = "layer_name"}
    ELSE {}

\* The layers defined before op k (from 1) of ops: base, and the argument of
\* every earlier layer_begin.
DefinedBefore(ops, k) ==
  {"base"} \cup {py_str(arg(ops[j], 1)) :
                   j \in {n \in 1..(k - 1) : NameOf(ops[n]) = "layer_begin" /\ oplen(ops[n]) >= 2}}

\* Whether op k of ops has a layer_name argument that names no defined layer.
NamesUndefinedLayer(ops, k) ==
  \E i \in LayerNamePositions(NameOf(ops[k])) :
    i + 1 < oplen(ops[k]) /\ py_str(arg(ops[k], i + 1)) \notin DefinedBefore(ops, k)

\* C10: in a concrete frame the validator reports an undefined layer at op
\* k exactly when an argument of op k typed layer_name names a layer that
\* is neither base nor the argument of an earlier layer_begin of the frame.
C10_LayerReferences ==
  phase = "validated" =>
    \A i \in 1..Len(Frames) :
      (Frames[i].t = "dict" /\ Frames[i].keys = {"ops"} /\ Frames[i].ops.t = "list") =>
        \A k \in 1..Len(Frames[i].ops.l) :
          (\E e \in 1..Len(errors.list) :
             errors.list[e] = ValidationError("undefined_layer", i - 1, k - 1))
          <=> NamesUndefinedLayer(Frames[i].ops.l, k)

(***************************************************************************)
(* Palette indices                                                         *)
(***************************************************************************)
\* The argument positions the op table types as color_idx.
ColorPositions(name) ==
  IF name \in DOMAIN OP_SPECS
    THEN {i \in 0..(Len(OP_SPECS[name].arg_types) - 1) :
            OP_SPECS[name].arg_types[i + 1] = "color_idx"}
    ELSE {}

\* Whether op has, at a position typed color_idx, an argument that is not an
\* integer of 0..(palette_size - 1).
BadColorArg(op, palette_size) ==
  \E i \in ColorPositions(NameOf(op)) :
    /\ i + 1 < oplen(op)
    /\ ~(arg(op, i + 1).t = "int" /\ 0 <= arg(op, i + 1).i /\ arg(op, i + 1).i < palette_size)

\* C11: in a concrete frame the validator reports a palette diagnostic at an
\* op of the op table exactly when an argument of it typed color_idx is not
\* an integer within the palette (out of range, or no integer at all).
C11_PaletteIndices ==
  (phase = "validated" /\ doc.palette.t = "list") =>
    \A i \in 1..Len(Frames) :
      (Frames[i].t = "dict" /\ Frames[i].keys = {"ops"} /\ Frames[i].ops.t = "list") =>
        \A k \in 1..Len(Frames[i].ops.l) :
          NameOf(Frames[i].ops.l[k]) \in DOMAIN OP_SPECS =>
            ((\E e \in 1..Len(errors.list) :
                errors.list[e] = ValidationError("palette_index", i - 1, k - 1))
             <=> BadColorArg(Frames[i].ops.l[k], Len(doc.palette.items)))

(***************************************************************************)
(* A base that is no earlier frame                                         *)
(***************************************************************************)
GoodOps == {P1, P2, Q1, Q2}
AllIn(seq, set) == \A k \in 1..Len(seq) : seq[k] \in set

\* Frame i (from 1) is derived, has overrides or append_ops and no ops, and
\* holds valid ops only.
DerivedShapeOK(i) ==
  /\ Frames[i].t = "dict"
  /\ "base" \in Frames[i].keys
  /\ "ops" \notin Frames[i].keys
  /\ Frames[i].keys \cap {"overrides", "append_ops"} # {}
  /\ Frames[i].base.t = "int"
  /\ "append_ops" \in Frames[i].keys => AllIn(Frames[i].append_ops, GoodOps)
  /\ "overrides" \in Frames[i].keys =>
       \A k \in 1..Len(Frames[i].overrides) :
         /\ Frames[i].overrides[k].op \in GoodOps
         /\ Frames[i].overrides[k].op_index.t = "int"
         /\ Frames[i].overrides[k].op_index.i >= 0

\* Frame i is valid: concrete with valid ops, or derived from an earlier frame.
FrameOK(i) ==
  \/ /\ Frames[i].t = "dict"
     /\ Frames[i].keys = {"ops"}
     /\ Frames[i].ops.t = "list"
     /\ AllIn(Frames[i].ops.l, GoodOps)
  \/ /\ DerivedShapeOK(i)
     /\ 0 <= Frames[i].base.i
     /\ Frames[i].base.i < i - 1

\* Frame i is valid but for its base, an integer that is not below its index.
BaseNotEarlier(i) == DerivedShapeOK(i) /\ Frames[i].base.i >= i - 1

\* The document is valid outside its frames.
ValidOutsideFrames ==
  /\ doc.format = "spriteops"
  /\ doc.canvas = GoodCanvas
  /\ doc.palette = GoodPalette
  /\ doc.animations = NoAnimations
  /\ doc.frames.t = "list"

HasPhrase(words, a, b) == \E k \in 1..(Len(words) - 1) : words[k] = a /\ words[k + 1] = b

\* C12: for a document that is valid but for one frame whose integer base is
\* not below the frame's index, the validator returns exactly one diagnostic;
\* its frame is that frame and its message holds the phrase "earlier frame".
C12_BadBaseOneDiagnostic ==
  (phase = "validated" /\ ValidOutsideFrames) =>
    \A i \in 1..Len(Frames) :
      (BaseNotEarlier(i) /\ \A j \in (1..Len(Frames)) \ {i} : FrameOK(j)) =>
        /\ Len(errors.list) = 1
        /\ errors.list[1].frame = i - 1
        /\ HasPhrase(message_text(errors.list[1].message), "earlier", "frame")

\* The validator returned on a document of three frames whose last frame has
\* base 5.
C12_Witness ==
  /\ phase = "validated"
  /\ ValidOutsideFrames
  /\ Len(Frames) = 3
  /\ BaseNotEarlier(3)
  /\ Frames[3].base = I(5)
  /\ FrameOK(1) /\ FrameOK(2)
  /\ Len(errors.list) = 1

(***************************************************************************)
(* The linear gradient                                                     *)
(***************************************************************************)
\* render_frame ran, on a 4 x 1 canvas, the one op gradient_linear with the
\* index list 1,2 from (0,0) to (3,0).
GradientScenario ==
  /\ rf_w = 4
  /\ rf_h = 1
  /\ rf_pc = 1
  /\ rf_op = mk("gradient_linear", <<S("1,2")>> \o ints(<<0, 0, 3, 0>>))

\* C13 as stated: the scenario produces the buffer [1,1,2,2].
C13_GradientScenario ==
  GradientScenario =>
    /\ rf_status = "ok"
    /\ merged(Frame, rf_w, rf_h) = <<1, 1, 2, 2>>
    /\ phase = "returned" => result = Returned(<<1, 1, 2, 2>>)

\* C13, amended: the scenario produces the buffer [1,1,1,2]: with two
\* indices the index floor(t * (N - 1)) is the second one only where t = 1,
\* at the end point.
C13_GradientLinear ==
  GradientScenario =>
    /\ rf_status = "ok"
    /\ merged(Frame, rf_w, rf_h) = <<1, 1, 1, 2>>
    /\ phase = "returned" => result = Returned(<<1, 1, 1, 2>>)

\* The scenario ran and render_frame returned.
C13_Witness == GradientScenario /\ phase = "returned" /\ Len(result.list) = 4

(***************************************************************************)
(* Noise points                                                            *)
(***************************************************************************)
\* (a + b) mod 2^31 for a, b of 0..2^31-1.
AddMod31(a, b) == IF (a - 2147483647) + b > 0 THEN ((a - 2147483647) + b) - 1 ELSE a + b

\* (1103515245 * x + 12345) mod 2^31, with 1103515245 = 16838 * 2^16 + 20077
\* and x split at bit 16: the product of the two high parts is a multiple
\* of 2^32.
LcgStep(x) ==
  LET x1 == x \div 65536
      x0 == x % 65536
      mid == (16838 * x0 + 20077 * x1) % 32768
  IN AddMod31(AddMod31(mid * 65536, 20077 * x0), 12345)

\* x_k: x_0 = seed mod 2^31 and x_k = LcgStep(x_(k-1)).
RECURSIVE LcgAt(_, _)
LcgAt(seed, k) ==
  IF k = 0
    THEN (IF seed >= 0 THEN seed ELSE (seed + 2147483647) + 1)
    ELSE LcgStep(LcgAt(seed, k - 1))

\* The k-th (from 1) smallest element of a set of numbers.
Nth(set, k) == CHOOSE e \in set : Cardinality({y \in set : y < e}) = k - 1

\* The pixels (from 1, row-major) noise_points colours: eligible[x_k mod n]
\* for k = 1..count, eligible being the pixels where mask is not 0.
NoiseHits(mask, count, seed) ==
  LET eligible == {p \in 1..Len(mask) : mask[p] # 0}
      n == Cardinality(eligible)
  IN IF n = 0 \/ count <= 0
       THEN {}
       ELSE {Nth(eligible, (LcgAt(seed, k) % n) + 1) : k \in 1..count}

\* A noise_points op whose mask layer exists sets the pixels NoiseHits of
\* the current layer to the colour and leaves every other pixel of every
\* layer as it was.
NoiseStep ==
  (/\ rf_pc' = rf_pc + 1
   /\ NameOf(rf_op') = "noise_points"
   /\ oplen(rf_op') = 5
   /\ arg(rf_op', 2).s \in DOMAIN rf_layers) =>
    LET c == arg(rf_op', 1).i
        mask == rf_layers[arg(rf_op', 2).s]
        hits == NoiseHits(mask, arg(rf_op', 3).i, arg(rf_op', 4).i)
    IN /\ rf_status' = "ok"
       /\ DOMAIN rf_layers' = DOMAIN rf_layers \cup {rf_current}
       /\ \A k \in DOMAIN rf_layers' :
            /\ Len(rf_layers'[k]) = rf_w * rf_h
            /\ \A p \in 1..(rf_w * rf_h) :
                 rf_layers'[k][p] = IF k = rf_current /\ p \in hits THEN c ELSE Before(k, p)

\* C14: noise_points colours exactly the pixels eligible[x_k mod n],
\* k = 1..count, of the current layer, x_k being the generator
\* x_k = (1103515245 * x_(k-1) + 12345) mod 2^31 from x_0 = seed mod 2^31 and
\* eligible the row-major list of the n pixels where the mask is not 0; it
\* changes nothing when n = 0 or count <= 0.
C14_NoiseLcg == [][NoiseStep]_vars

\* clear 1 made every pixel of base eligible, and noise_points with count 2
\* and seed 42 then coloured the pixels eligible[3] and eligible[0].
C14_Witness ==
  /\ rf_pc = 2
  /\ rf_ops = <<mk("clear", ints(<<1>>)), mk("noise_points", <<I(2), S("base"), I(2), I(42)>>)>>
  /\ rf_status = "ok"
  /\ rf_layers["base"] = <<2, 1, 1, 2>>

(***************************************************************************)
(* Layer ops                                                               *)
(***************************************************************************)
\* A layer_merge op leaves exactly one layer, named by its argument (base
\* without one), that holds the merged view of before; it is the order list
\* and the current layer, and the merged view is what it was.
MergeStep ==
  (rf_pc' = rf_pc + 1 /\ NameOf(rf_op') = "layer_merge") =>
    LET name == IF oplen(rf_op') > 1 THEN arg(rf_op', 1).s ELSE "base"
        m == merge_layers(rf_layers, rf_order, rf_w, rf_h)
    IN /\ rf_status' = "ok"
       /\ DOMAIN rf_layers' = {name}
       /\ rf_layers'[name] = m
       /\ rf_order' = <<name>>
       /\ rf_current' = name
       /\ merge_layers(rf_layers', rf_order', rf_w, rf_h) = m

\* C15: after layer_merge [name] the layer mapping holds exactly the layer
\* name (base when absent) with the merged view of just before the op, the
\* order list is [name], current is name, and the merged view is unchanged.
C15_LayerMergeCollapses == [][MergeStep]_vars

\* layer_merge m collapsed the layers base and a, a holding a pixel.
C15_Witness ==
  /\ rf_pc = 3
  /\ rf_ops = <<mk("layer_begin", <<S("a")>>), mk("pixel", ints(<<1, 0, 0>>)),
               mk("layer_merge", <<S("m")>>)>>
  /\ rf_layers = ("m" :> <<1, 0, 0, 0>>)
  /\ rf_order = <<"m">>
  /\ rf_current = "m"

\* A clear op with colour c leaves the same layers, each with all its w * h
\* pixels c, and the same order list and current layer.
ClearStep ==
  (rf_pc' = rf_pc + 1 /\ NameOf(rf_op') = "clear" /\ oplen(rf_op') = 2
   /\ arg(rf_op', 1).t = "int") =>
    /\ rf_status' = "ok"
    /\ DOMAIN rf_layers' = DOMAIN rf_layers
    /\ \A k \in DOMAIN rf_layers' :
         /\ Len(rf_layers'[k]) = rf_w * rf_h
         /\ \A p \in 1..(rf_w * rf_h) : rf_layers'[k][p] = arg(rf_op', 1).i
    /\ rf_order' = rf_order
    /\ rf_current' = rf_current

\* C16: after clear c every layer that existed has all its pixels c; the
\* set of layers, the order list and current are unchanged and no layer is
\* created, also when current names a layer that does not exist.
C16_ClearEveryLayer == [][ClearStep]_vars

\* clear ran with current naming base, which layer_merge m had removed.
C16_Witness ==
  /\ rf_pc = 3
  /\ rf_ops = <<mk("layer_merge", <<S("m")>>), mk("layer_end", <<>>), mk("clear", ints(<<1>>))>>
  /\ rf_current = "base"
  /\ rf_layers = ("m" :> <<1, 1, 1, 1>>)

\* A copy_layer src dst op: with src a layer, dst holds what src held, every
\* other layer is as before, dst is appended to the order list if it is new
\* and the list is as before otherwise; without src nothing changes.  The
\* current layer stays.  A pixel op after a copy changes the current layer
\* only.
CopyStep ==
  /\ (rf_pc' = rf_pc + 1 /\ NameOf(rf_op') = "copy_layer" /\ oplen(rf_op') = 3) =>
       LET src == arg(rf_op', 1).s
           dst == arg(rf_op', 2).s
       IN /\ rf_status' = "ok"
          /\ rf_current' = rf_current
          /\ IF src \in DOMAIN rf_layers
               THEN /\ DOMAIN rf_layers' = DOMAIN rf_layers \cup {dst}
                    /\ rf_layers'[dst] = rf_layers[src]
                    /\ \A k \in DOMAIN rf_layers \ {dst} : rf_layers'[k] = rf_layers[k]
                    /\ rf_order' = IF dst \in DOMAIN rf_layers THEN rf_order
                                   ELSE Append(rf_order, dst)
               ELSE rf_layers' = rf_layers /\ rf_order' = rf_order
  /\ (/\ rf_pc' = rf_pc + 1
      /\ NameOf(rf_op') = "pixel"
      /\ \E j \in 1..rf_pc : NameOf(rf_ops[j]) = "copy_layer") =>
       \A k \in DOMAIN rf_layers \ {rf_current} :
         k \in DOMAIN rf_layers' /\ rf_layers'[k] = rf_layers[k]

\* C17: copy_layer src dst makes dst a copy of src, appended to the order
\* list if new and in place otherwise, leaves src, the other layers and
\* current alone, and a later write to dst does not reach src; without a
\* layer src the state is unchanged and dst is not created.
C17_CopyLayer == [][CopyStep]_vars

\* base with a pixel was copied to the new layer a, and a pixel then drawn
\* into base left a as copied.
C17_Witness ==
  /\ rf_pc = 3
  /\ rf_ops = <<mk("pixel", ints(<<1, 0, 0>>)), mk("copy_layer", <<S("base"), S("a")>>),
               mk("pixel", ints(<<2, CanvasW - 1, 0>>))>>
  /\ rf_order = <<"base", "a">>
  /\ rf_layers["a"][1] = 1
  /\ rf_layers["a"][CanvasW] = 0
  /\ rf_layers["base"][CanvasW] = 2

\* A shade_band or noise_points op that names a layer the mapping does not
\* hold ends the call with an error; after an error no op runs and no
\* buffer is returned.
MissingMaskStep ==
  /\ (/\ rf_pc' = rf_pc + 1
      /\ NameOf(rf_op') \in {"shade_band", "noise_points"}
      /\ oplen(rf_op') >= 4
      /\ arg(rf_op', 2).s \notin DOMAIN rf_layers) =>
       rf_status' # "ok"
  /\ rf_status # "ok" => (rf_pc' = rf_pc /\ rf_status' = rf_status /\ result' = result)

\* C18: a shade_band or noise_points op naming a layer that is not in the
\* layer mapping when the op executes (never begun, or removed by an earlier
\* layer_merge) stops render_frame with an error: no later op runs and no
\* buffer is returned.
C18_MissingMaskFailsFast == [][MissingMaskStep]_vars

(***************************************************************************)
(* The side of shade_band                                                  *)
(***************************************************************************)
\* A shade_band op whose side is none of right, bottom, top_left, edge.
UnsupportedSide(op) ==
  /\ NameOf(op) = "shade_band"
  /\ oplen(op) >= 4
  /\ arg(op, 3).t = "str"
  /\ arg(op, 3).s \notin {"right", "bottom", "top_left", "edge"}

\* C19: a document whose frames hold a shade_band op with an unsupported
\* side fails: the validator reports a diagnostic or render_frame raises,
\* whatever the mask layer holds; it never gets every frame rendered.
C19_UnsupportedSideFails ==
  phase = "done" =>
    \A i \in 1..Len(processed.list) :
      \A k \in 1..Len(processed.list[i]) : ~UnsupportedSide(processed.list[i][k])

(***************************************************************************)
(* Inheritance identity                                                    *)
(***************************************************************************)
\* Frame i (from 1) is derived from an earlier frame, has no override and
\* appends nothing.
IdentityFrame(i) ==
  /\ "base" \in Frames[i].keys
  /\ Frames[i].base.t = "int"
  /\ 0 <= Frames[i].base.i
  /\ Frames[i].base.i < i - 1
  /\ "overrides" \in Frames[i].keys => Frames[i].overrides = <<>>
  /\ "append_ops" \in Frames[i].keys => Frames[i].append_ops = <<>>

\* C20: a derived frame with no overrides and an empty append_ops resolves
\* to the resolved op list of its base, and renders as its base does.
C20_InheritanceIdentity ==
  (Resolved /\ ~processed.raised) =>
    \A i \in 1..Len(Frames) :
      IdentityFrame(i) =>
        /\ Len(processed.list) >= i
        /\ processed.list[i] = processed.list[Frames[i].base.i + 1]
        /\ Len(rendered) >= i => rendered[i] = rendered[Frames[i].base.i + 1]

\* The third frame, which overrides and appends nothing, is rendered; its
\* base is the second frame, which appends an op to the first.
C20_Witness ==
  /\ phase = "done"
  /\ Len(Frames) = 3
  /\ IdentityFrame(3)
  /\ Frames[3].base = I(1)
  /\ Frames[2].append_ops = <<Q2>>
  /\ processed.list[3] = <<P1, Q2>>
  /\ rendered[3].buf = <<2, 2, 2, 2>>
(***************************************************************************)
(* Flood fill                                                              *)
(***************************************************************************)
\* The current layer's buffer before the op ran (zeros when the op had to
\* create the layer).
BeforeCurrent == [p \in 1..(rf_w * rf_h) |-> Before(rf_current, p)]

\* The least set of canvas coordinates that holds `region` and every canvas
\* coordinate of value `target` one 4-neighbour step from a member.
RECURSIVE Grow(_, _, _)
Grow(buf, target, region) ==
  LET more == {q \in (0..(rf_w - 1)) \X (0..(rf_h - 1)) :
                 /\ buf[q[2] * rf_w + q[1] + 1] = target
                 /\ \E p \in region : Abs(p[1] - q[1]) + Abs(p[2] - q[2]) = 1}
  IN IF more \subseteq region THEN region ELSE Grow(buf, target, region \cup more)

\* The pixels `fill c x y` is to recolour in buf.
FillRegion(buf, c, x, y) ==
  IF ~(0 <= x /\ x < rf_w /\ 0 <= y /\ y < rf_h) THEN {}
  ELSE IF buf[y * rf_w + x + 1] = c THEN {}
  ELSE Grow(buf, buf[y * rf_w + x + 1], {<<x, y>>})

FillStep ==
  (rf_pc' = rf_pc + 1 /\ NameOf(rf_op') = "fill" /\ ints_ok(rf_op', 1, 3)) =>
    LET c == ai(rf_op', 1)
        region == FillRegion(BeforeCurrent, c, ai(rf_op', 2), ai(rf_op', 3))
    IN /\ rf_status' = "ok"
       /\ rf_current' = rf_current
       /\ rf_current \in DOMAIN rf_layers'
       /\ \A p \in 1..(rf_w * rf_h) :
            rf_layers'[rf_current][p] =
              IF <<(p - 1) % rf_w, (p - 1) \div rf_w>> \in region
                THEN c ELSE BeforeCurrent[p]

\* C21: `fill c x y` changes to c, in the current layer, exactly the pixels
\* reachable from (x, y) by 4-neighbour steps inside the canvas through
\* pixels equal to the seed's prior value, and leaves every other pixel of
\* the layer as it was; it returns (the call ends "ok"), and it changes
\* nothing when the seed is outside the canvas or already has value c.
C21_FloodFill == [][FillStep]_vars

\* An anti-diagonal line of colour 1 cut the canvas in two, then a fill of
\* the last colour from the top-left corner recoloured that corner and left the
\* zero pixel at the bottom-right, which no 4-neighbour path reaches.
C21_Witness ==
  /\ rf_pc = 2
  /\ rf_status = "ok"
  /\ rf_ops[1] = mk("line", ints(<<1, CanvasW - 1, 0, -1, CanvasH>>))
  /\ rf_op = mk("fill", ints(<<MaxColor, 0, 0>>))
  /\ rf_layers["base"][1] = MaxColor
  /\ rf_layers["base"][CanvasW * CanvasH] = 0
(***************************************************************************)
(* Outline of the merged view                                              *)
(***************************************************************************)
\* The indices `outline c t` is to colour: zero in the merged view m and at
\* Manhattan distance at most t from a canvas pixel that is non-zero in m.
OutlineRing(m, t) ==
  {p \in 1..(rf_w * rf_h) :
     /\ m[p] = 0
     /\ \E q \in 1..(rf_w * rf_h) :
          /\ m[q] # 0
          /\ Abs(((p - 1) % rf_w) - ((q - 1) % rf_w))
               + Abs(((p - 1) \div rf_w) - ((q - 1) \div rf_w)) <= t}

OutlineStep ==
  (/\ rf_pc' = rf_pc + 1
   /\ NameOf(rf_op') = "outline"
   /\ ints_ok(rf_op', 1, 1)
   /\ oplen(rf_op') > 2 => int_ok(arg(rf_op', 2))) =>
    LET c == ai(rf_op', 1)
        t == IF oplen(rf_op') > 2 THEN ai(rf_op', 2) ELSE 1
        m == merge_layers(rf_layers, rf_order, rf_w, rf_h)
        ring == OutlineRing(m, t)
    IN /\ rf_status' = "ok"
       /\ rf_current \in DOMAIN rf_layers'
       /\ \A p \in 1..(rf_w * rf_h) :
            /\ rf_layers'[rf_current][p] = IF p \in ring THEN c ELSE BeforeCurrent[p]
            /\ m[p] # 0 => \A k \in DOMAIN rf_layers' : rf_layers'[k][p] = Before(k, p)
       /\ \A k \in DOMAIN rf_layers' \ {rf_current} :
            k \in DOMAIN rf_layers /\ rf_layers'[k] = rf_layers[k]
       /\ (\A p \in 1..(rf_w * rf_h) : m[p] # 0) =>
            \A k \in DOMAIN rf_layers' : \A p \in 1..(rf_w * rf_h) :
              rf_layers'[k][p] = Before(k, p)

\* C22: `outline c t` (t = 1 when absent) sets to c, in the current layer
\* only, exactly the pixels that were zero in the merged view before the op
\* and lie within Manhattan distance t, inside the canvas, of a pixel that
\* was non-zero in the merged view; no pixel that was non-zero in the merged
\* view and no pixel of another layer changes, and when the merged view has
\* no zero pixel nothing changes.
C22_OutlineMerged == [][OutlineStep]_vars

\* One pixel was drawn in the top-left corner of "base", layer "a" was
\* begun, and the merged view was outlined with thickness 1: in "a" the
\* pixel's right neighbour took the outline colour and the bottom-right
\* corner, two steps away, stayed zero; "base" kept its one pixel.
C22_Witness ==
  /\ rf_pc = 3
  /\ rf_status = "ok"
  /\ rf_ops[1] = mk("pixel", ints(<<MaxColor, 0, 0>>))
  /\ rf_ops[2] = mk("layer_begin", <<S("a")>>)
  /\ rf_op = mk("outline", <<I(1)>>)
  /\ rf_layers["a"][1] = 0
  /\ rf_layers["a"][2] = 1
  /\ rf_layers["a"][CanvasW * CanvasH] = 0
  /\ rf_layers["base"] = [p \in 1..(CanvasW * CanvasH) |-> IF p = 1 THEN MaxColor ELSE 0]
(***************************************************************************)
(* shade_band                                                              *)
(***************************************************************************)
\* Coordinate (x, y) is outside the canvas or zero in mask.
Off(mask, x, y) ==
  ~(0 <= x /\ x < rf_w /\ 0 <= y /\ y < rf_h) \/ mask[y * rf_w + x + 1] = 0

\* The side predicate of shade_band at (x, y) on mask.
SideHolds(mask, side, t, x, y) ==
  CASE side = "right" -> \E k \in 1..t : Off(mask, x + k, y)
    [] side = "bottom" -> \E k \in 1..t : Off(mask, x, y + k)
    [] side = "top_left" -> \E k \in 1..t : Off(mask, x, y - k) \/ Off(mask, x - k, y)
    [] side = "edge" ->
         Off(mask, x + 1, y) \/ Off(mask, x - 1, y) \/ Off(mask, x, y + 1)
           \/ Off(mask, x, y - 1)
    [] OTHER -> FALSE

ShadeBandStep ==
  (/\ rf_pc' = rf_pc + 1
   /\ NameOf(rf_op') = "shade_band"
   /\ ints_ok(rf_op', 1, 1)
   /\ oplen(rf_op') >= 4
   /\ oplen(rf_op') > 4 => int_ok(arg(rf_op', 4))
   /\ py_str(arg(rf_op', 2)) \in DOMAIN rf_layers
   /\ py_lower(py_str(arg(rf_op', 3))) \in ShadeSides) =>
    LET c == ai(rf_op', 1)
        mask == rf_layers[py_str(arg(rf_op', 2))]
        side == py_lower(py_str(arg(rf_op', 3)))
        t == IF oplen(rf_op') > 4 THEN ai(rf_op', 4) ELSE 1
    IN /\ rf_status' = "ok"
       /\ rf_current \in DOMAIN rf_layers'
       /\ \A p \in 1..(rf_w * rf_h) :
            rf_layers'[rf_current][p] =
              IF mask[p] # 0 /\ SideHolds(mask, side, t, (p - 1) % rf_w, (p - 1) \div rf_w)
                THEN c ELSE BeforeCurrent[p]

\* C23: `shade_band c L side t` (t = 1 when absent) sets to c exactly the
\* pixels of the current layer where layer L, as it was when the op began,
\* is non-zero and the side predicate holds on L, and leaves every other
\* pixel of the current layer unchanged; for every colour c, 0 included,
\* and also when L is the current layer.
C23_ShadeBandMaskSnapshot == [][ShadeBandStep]_vars
(***************************************************************************)
(* Draw ops and the other layers                                           *)
(***************************************************************************)
DrawNames ==
  {"pixel", "line", "rect", "rect_fill", "rect_stroke", "ellipse_fill", "ellipse_stroke",
   "circle_fill", "capsule_fill", "bezier", "thick_line", "poly_fill", "dither_rect",
   "fill", "gradient_linear", "gradient_radial"}

\* The values a draw op writes.
DrawColors(op) ==
  IF NameOf(op) \in {"gradient_linear", "gradient_radial"}
    THEN {gradient_indices(arg(op, 1))[k] : k \in DOMAIN gradient_indices(arg(op, 1))}
    ELSE {ai(op, 1)}

DrawStep ==
  (rf_pc' = rf_pc + 1 /\ NameOf(rf_op') \in DrawNames /\ rf_status' = "ok") =>
    /\ rf_current' = rf_current
    /\ \A k \in DOMAIN rf_layers \ {rf_current} :
         k \in DOMAIN rf_layers' /\ rf_layers'[k] = rf_layers[k]
    /\ IF rf_current \in DOMAIN rf_layers
         THEN DOMAIN rf_layers' = DOMAIN rf_layers /\ rf_order' = rf_order
         ELSE /\ DOMAIN rf_layers' = DOMAIN rf_layers \cup {rf_current}
              /\ rf_order' = Append(rf_order, rf_current)
              /\ \A p \in 1..(rf_w * rf_h) :
                   rf_layers'[rf_current][p] \in {0} \cup DrawColors(rf_op')

LayerBeginStep ==
  (/\ rf_pc' = rf_pc + 1
   /\ NameOf(rf_op') = "layer_begin"
   /\ oplen(rf_op') > 1
   /\ py_str(arg(rf_op', 1)) \in DOMAIN rf_layers) =>
    rf_layers' = rf_layers /\ rf_order' = rf_order

\* C24: a draw op (pixel, line, rect, rect_fill, rect_stroke, ellipse_fill,
\* ellipse_stroke, circle_fill, capsule_fill, bezier, thick_line, poly_fill,
\* dither_rect, fill, gradient_linear, gradient_radial) leaves the buffer
\* of every layer but the current one unchanged, leaves the current name
\* and the order of the existing layers unchanged, and creates at most one
\* layer: the current one, zero-filled before the op draws into it and
\* appended at the end of the order, when it did not exist.  layer_begin on
\* an existing layer changes neither pixels nor the order.
C24_DrawOnlyCurrent == [][DrawStep /\ LayerBeginStep]_vars

\* layer_merge m left only layer "m", layer_end made "base" current, and
\* the pixel op created "base" after "m" and drew into it; "m" kept its
\* zeros.
C24_Witness ==
  /\ rf_pc = 3
  /\ rf_status = "ok"
  /\ rf_ops[1] = mk("layer_merge", <<S("m")>>)
  /\ rf_ops[2] = mk("layer_end", <<>>)
  /\ rf_op = mk("pixel", ints(<<1, 0, 0>>))
  /\ rf_order = <<"m", "base">>
  /\ rf_layers["base"][1] = 1
  /\ rf_layers["m"] = Zeros(CanvasW * CanvasH)
(***************************************************************************)
(* The layer mapping and the order list                                    *)
(***************************************************************************)
\* C25: after every prefix of the ops, the order list names no layer twice,
\* the set of its names is the key set of the layer mapping, and every
\* layer buffer has w * h entries.
C25_LayersConsistent ==
  /\ \A i, j \in DOMAIN rf_order : rf_order[i] = rf_order[j] => i = j
  /\ {rf_order[i] : i \in DOMAIN rf_order} = DOMAIN rf_layers
  /\ \A k \in DOMAIN rf_layers : Len(rf_layers[k]) = rf_w * rf_h

\* Layer "a" was created by a copy, layer_merge collapsed both layers into
\* "m", and layer_begin created "a" again behind "m".
C25_Witness ==
  /\ rf_pc = 3
  /\ rf_status = "ok"
  /\ rf_ops[1] = mk("copy_layer", <<S("base"), S("a")>>)
  /\ rf_ops[2] = mk("layer_merge", <<S("m")>>)
  /\ rf_op = mk("layer_begin", <<S("a")>>)
  /\ rf_order = <<"m", "a">>
  /\ DOMAIN rf_layers = {"m", "a"}
(***************************************************************************)
(* The current layer                                                       *)
(***************************************************************************)
\* C26: after every prefix of the ops (in particular after layer_end, and
\* after layer_merge with any name followed by layer_end) the current layer
\* name is a key of the layer mapping and a member of the order list.
C26_CurrentLayerExists ==
  /\ rf_current \in DOMAIN rf_layers
  /\ \E i \in DOMAIN rf_order : rf_order[i] = rf_current
(***************************************************************************)
(* Rendered values and the palette                                         *)
(***************************************************************************)
\* C27: for every accepted document, every value of every buffer that
\* render_frame returns for its resolved frames is at least 0 and below the
\* number of palette colours, whether the index was given in a gradient's
\* index string or in an op brought in by overrides or append_ops.
C27_RenderedInsidePalette ==
  \A k \in DOMAIN rendered :
    rendered[k].status = "ok" =>
      \A p \in DOMAIN rendered[k].buf :
        0 <= rendered[k].buf[p] /\ rendered[k].buf[p] < Len(doc.palette.items)
(***************************************************************************)
(* The resolver on accepted documents                                      *)
(***************************************************************************)
\* C28: on every document for which validate_sprite returns no diagnostic,
\* process_frame_inheritance returns without raising, and returns exactly
\* one op list per frame.
C28_ResolverTotal ==
  (Accepted /\ Resolved) =>
    /\ ~processed.raised
    /\ Len(processed.list) = Len(Frames)
(***************************************************************************)
(* Strict mode                                                             *)
(***************************************************************************)
\* Whether the diagnostics a are among the diagnostics b, in b's order.
RECURSIVE Among(_, _)
Among(a, b) ==
  IF a = <<>> THEN TRUE
  ELSE IF b = <<>> THEN FALSE
  ELSE IF Head(a) = Head(b) THEN Among(Tail(a), Tail(b))
  ELSE Among(a, Tail(b))

\* C29: validate_sprite in strict mode returns an empty list exactly when
\* it returns an empty list in non-strict mode, and its strict result holds
\* every diagnostic of its non-strict result.
C29_StrictSameAcceptance ==
  (phase # "loaded" /\ strict_flag) =>
    LET lax == validate_sprite(doc, FALSE)
    IN /\ lax.raised = errors.raised
       /\ ~errors.raised =>
            /\ errors.list = <<>> <=> lax.list = <<>>
            /\ Among(lax.list, errors.list)

\* Strict validation of a document with a noise_points op without its seed:
\* the op has three arguments, which the argument-count rule reports in
\* both modes, and strict mode adds the seed diagnostic.
C29_Witness ==
  /\ phase = "validated"
  /\ strict_flag
  /\ "seed" \in Messages
  /\ "op_min_args" \in Messages
  /\ Len(errors.list) = Len(validate_sprite(doc, FALSE).list) + 1
(***************************************************************************)
(* The editor round trip                                                   *)
(***************************************************************************)
\* The run of one colour that pixel (x, y) of the buffer lies in.
SameRun(x1, x2, y) ==
  \A x \in x1..x2 : buffer[y * canvas_width + x + 1] = buffer[y * canvas_width + x1 + 1]
RunStart(x, y) == CHOOSE s \in 0..x : SameRun(s, x, y) /\ \A t \in 0..(s - 1) : ~SameRun(t, x, y)
RunStop(x, y) ==
  CHOOSE e \in x..(canvas_width - 1) :
    SameRun(x, e, y) /\ \A t \in (e + 1)..(canvas_width - 1) : ~SameRun(x, t, y)
RunLength(x, y) == RunStop(x, y) - RunStart(x, y) + 1

\* The ops a pixel of the buffer stands for: nothing for index 0, a pixel op
\* of its own in a run shorter than 3, and one rect_fill op, placed at the
\* start of the run, for a run of 3 or more.
OpsAt(x, y) ==
  LET idx == buffer[y * canvas_width + x + 1]
  IN IF idx = 0 THEN <<>>
     ELSE IF RunLength(x, y) < 3 THEN <<mk("pixel", ints(<<idx, x, y>>))>>
     ELSE IF RunStart(x, y) = x THEN <<mk("rect_fill", ints(<<idx, x, y, RunLength(x, y), 1>>))>>
     ELSE <<>>

RECURSIVE OpsFrom(_)
OpsFrom(p) ==
  IF p >= canvas_width * canvas_height THEN <<>>
  ELSE OpsAt(p % canvas_width, p \div canvas_width) \o OpsFrom(p + 1)

ExpectedOps == <<mk("clear", ints(<<0>>))>> \o OpsFrom(0)

DuplicateStep ==
  (phase = "editing" /\ phase' # "editing")
    => /\ phase' = "duplicated"
       /\ frame_ops' = ExpectedOps
       /\ buffer' = buffer

====
